---------------------------- MODULE Spec2Model ----------------------------
(***************************************************************************)
(* A model of the grok pattern compiler: the placeholder scanner           *)
(* (src/src/pattern_parser.rs) and the explicit-stack expansion            *)
(* (Grok::compile / Grok::compile_regex in src/src/lib.rs).                *)
(*                                                                         *)
(* Strings are sequences of one-character strings.  Indices are Rust's     *)
(* 0-based byte indices (the modelled alphabet is ASCII, so a byte index   *)
(* is a character index): At(s, i) is the character at byte index i and    *)
(* Slice(s, a, b) is &s[a..b].                                             *)
(*                                                                         *)
(* Where the result of a call is used several times by what follows, it    *)
(* is bound once as the element of a one-element set:                      *)
(* CHOOSE r \in {F(w) : w \in {G(x)}} : TRUE is F(G(x)).                   *)
(***************************************************************************)
EXTENDS Integers, Sequences, FiniteSets, TLC

(***************************************************************************)
(* Strings                                                                 *)
(***************************************************************************)
At(s, i) == s[i + 1]

Slice(s, a, b) == SubSeq(s, a + 1, b)

Upper ==
    {"A","B","C","D","E","F","G","H","I","J","K","L","M",
     "N","O","P","Q","R","S","T","U","V","W","X","Y","Z"}

Lower ==
    {"a","b","c","d","e","f","g","h","i","j","k","l","m",
     "n","o","p","q","r","s","t","u","v","w","x","y","z"}

Digits == <<"0","1","2","3","4","5","6","7","8","9">>

DigitSet == {Digits[i] : i \in 1..10}

\* char::is_ascii_alphanumeric
IsAsciiAlphanumeric(c) == c \in Upper \cup Lower \cup DigitSet

\* The decimal text of a usize, as format!("{n}") writes it.
RECURSIVE Decimal(_)
Decimal(n) ==
    IF n < 10 THEN <<Digits[n + 1]>>
    ELSE Decimal(n \div 10) \o <<Digits[(n % 10) + 1]>>

(***************************************************************************)
(* The scanner: GrokSplit                                                  *)
(***************************************************************************)
NoError == [kind |-> "None", char |-> ""]

InvalidCharacter(c) == [kind |-> "InvalidCharacter", char |-> c]

InvalidPattern == [kind |-> "InvalidPattern", char |-> ""]

InvalidPatternDefinition == [kind |-> "InvalidPatternDefinition", char |-> ""]

\* Option::None of GrokSplit::next
NoComponent ==
    [kind |-> "None", range |-> <<0, 0>>, string |-> <<>>, pattern |-> <<>>,
     name |-> <<>>, alias |-> <<>>, extract |-> <<>>, definition |-> <<>>,
     error |-> NoError]

RegularExpression(s, start, end) ==
    [kind |-> "RegularExpression", range |-> <<start, end>>,
     string |-> Slice(s, start, end), pattern |-> <<>>,
     name |-> <<>>, alias |-> <<>>, extract |-> <<>>, definition |-> <<>>,
     error |-> NoError]

\* A variant of GrokPattern that takes the alias and the extract from each
\* other's word.
GrokPattern_Swapped(s, start, end, components, definition) ==
    [kind |-> "GrokPattern", range |-> <<start, end>>,
     string |-> <<>>, pattern |-> Slice(s, start, end),
     name |-> components[1], alias |-> components[3],
     extract |-> components[2], definition |-> definition,
     error |-> NoError]

GrokPattern(s, start, end, components, definition) ==
    [kind |-> "GrokPattern", range |-> <<start, end>>,
     string |-> <<>>, pattern |-> Slice(s, start, end),
     name |-> components[1], alias |-> components[2],
     extract |-> components[3], definition |-> definition,
     error |-> NoError]

PatternError(e) ==
    [kind |-> "PatternError", range |-> <<0, 0>>, string |-> <<>>, pattern |-> <<>>,
     name |-> <<>>, alias |-> <<>>, extract |-> <<>>, definition |-> <<>>,
     error |-> e]

\* The characters that end a word.
Terminators == {"}", "=", ":"}

\* A variant of WordChar that allows the extra characters in every word.
WordChar_ExtraEverywhere(c, is_alias_or_capture) ==
    \/ IsAsciiAlphanumeric(c)
    \/ c = "_"
    \/ c \in {"-", "[", "]", "."}

\* A character try_munch_word accepts inside a word: alphanumeric or '_',
\* and for the alias and extract words also one of "-[].".
WordChar(c, is_alias_or_capture) ==
    \/ IsAsciiAlphanumeric(c)
    \/ c = "_"
    \/ (is_alias_or_capture /\ c \in {"-", "[", "]", "."})

\* The inner loop of try_munch_word: the index at which it stops, which is
\* that of the first terminator or rejected character, or the length of the
\* string when the iterator runs out.
RECURSIVE WordStop(_, _, _)
WordStop(s, i, is_alias_or_capture) ==
    IF i >= Len(s) THEN Len(s)
    ELSE IF At(s, i) \in Terminators THEN i
    ELSE IF ~WordChar(At(s, i), is_alias_or_capture) THEN i
    ELSE WordStop(s, i + 1, is_alias_or_capture)

\* The end of try_munch_word: the loop stopped at byte index `end`.
MunchedWord(s, it, is_alias_or_capture, end) ==
    IF end >= Len(s)
    THEN [ok |-> FALSE, err |-> InvalidPattern, terminator |-> "",
          word |-> <<>>, it |-> end]
    ELSE IF At(s, end) \notin Terminators
    THEN [ok |-> FALSE, err |-> InvalidCharacter(At(s, end)), terminator |-> "",
          word |-> <<>>, it |-> end]
    ELSE IF end = it /\ ~is_alias_or_capture
    THEN [ok |-> FALSE, err |-> InvalidPattern, terminator |-> "",
          word |-> <<>>, it |-> end]
    ELSE [ok |-> TRUE, err |-> NoError, terminator |-> At(s, end),
          word |-> Slice(s, it, end), it |-> end]

\* GrokSplit::try_munch_word with the iterator at `it`.  On Ok the iterator
\* is left on the terminator (it was only peeked).
try_munch_word(s, it, is_alias_or_capture) ==
    IF it >= Len(s)
    THEN [ok |-> FALSE, err |-> InvalidPattern, terminator |-> "", word |-> <<>>, it |-> it]
    ELSE MunchedWord(s, it, is_alias_or_capture, WordStop(s, it, is_alias_or_capture))

\* The loop that reads a DEFINITION: the index of the first '{' or '}' at or
\* after i, or the length of the string when there is none.
RECURSIVE DefinitionStop(_, _)
DefinitionStop(s, i) ==
    IF i >= Len(s) THEN Len(s)
    ELSE IF At(s, i) \in {"{", "}"} THEN i
    ELSE DefinitionStop(s, i + 1)

\* The end of the terminator '=' branch: the definition loop stopped at
\* byte index `index`.
MunchedDefinition(s, start, definition_start, components, comp_index, index) ==
    IF index >= Len(s)
    THEN [tok |-> PatternError(InvalidPatternDefinition), it |-> Len(s)]
    ELSE IF At(s, index) = "{"
    THEN [tok |-> PatternError(InvalidPatternDefinition), it |-> index + 1]
    ELSE IF Slice(s, definition_start, index) = <<>>
    THEN [tok |-> PatternError(InvalidPatternDefinition), it |-> index + 1]
    ELSE IF comp_index = 2 /\ components[2] = <<>>
    THEN [tok |-> PatternError(InvalidPatternDefinition), it |-> index + 1]
    ELSE [tok |-> GrokPattern(s, start, index + 1, components,
                              Slice(s, definition_start, index)),
          it |-> index + 1]

\* The terminator '=' branch: the definition runs from definition_start to
\* the next '}'.
MunchDefinition(s, start, definition_start, components, comp_index) ==
    MunchedDefinition(s, start, definition_start, components, comp_index,
                      DefinitionStop(s, definition_start))

\* The loop of try_next that loads up to three components NAME:ALIAS:EXTRACT.
\* comp_index counts the words stored so far; components is the 3-element
\* array (1-based here).
RECURSIVE MunchComponents(_, _, _, _, _)

\* The word was stored and its terminator, at byte index next0, consumed;
\* comp_index is already incremented.
AfterWord(s, start, components, comp_index, next0, terminator) ==
    IF comp_index = 3 /\ components[3] = <<>>
    THEN [tok |-> PatternError(InvalidPatternDefinition), it |-> next0 + 1]
    ELSE IF terminator = "}"
    THEN IF comp_index = 2 /\ components[2] = <<>>
         THEN [tok |-> PatternError(InvalidPatternDefinition), it |-> next0 + 1]
         ELSE [tok |-> GrokPattern(s, start, next0 + 1, components, <<>>),
               it |-> next0 + 1]
    ELSE IF terminator = "="
    THEN MunchDefinition(s, start, next0 + 1, components, comp_index)
    ELSE MunchComponents(s, start, next0 + 1, components, comp_index)

\* match self.try_munch_word(comp_index > 0), with its result w.
MatchWord(s, start, components, comp_index, w) ==
    IF ~w.ok THEN [tok |-> PatternError(w.err), it |-> w.it]
    ELSE IF comp_index = 3
    THEN [tok |-> PatternError(InvalidPattern), it |-> w.it]
    ELSE AfterWord(s, start, [components EXCEPT ![comp_index + 1] = w.word],
                   comp_index + 1, w.it, w.terminator)

MunchComponents(s, start, it, components, comp_index) ==
    CHOOSE res \in {MatchWord(s, start, components, comp_index, w) :
                       w \in {try_munch_word(s, it, comp_index > 0)}} : TRUE

\* "Not a pattern, munch until end-of-string or a %": the index of the first
\* '%' at or after i, or the length of the string.
RECURSIVE LiteralStop(_, _)
LiteralStop(s, i) ==
    IF i >= Len(s) THEN Len(s)
    ELSE IF At(s, i) = "%" THEN i
    ELSE LiteralStop(s, i + 1)

\* A variant of Literal that leaves the iterator past the character that
\* stopped the literal.
Literal_PastStop(s, start, end) ==
    [tok |-> RegularExpression(s, start, end), it |-> end + 1]

\* The literal from start up to (not including) byte index end, where the
\* iterator is left.
Literal(s, start, end) == [tok |-> RegularExpression(s, start, end), it |-> end]

MunchLiteral(s, start, it) == Literal(s, start, LiteralStop(s, it))

\* GrokSplit::try_next with the iterator at byte index `it`.
try_next(s, it) ==
    IF it >= Len(s) THEN [tok |-> NoComponent, it |-> it]
    ELSE IF At(s, it) = "%"
    THEN IF it + 1 >= Len(s)
         THEN [tok |-> RegularExpression(s, it, Len(s)), it |-> Len(s)]
         ELSE IF At(s, it + 1) = "{"
         THEN MunchComponents(s, it, it + 2, <<<<>>, <<>>, <<>>>>, 0)
         ELSE MunchLiteral(s, it, it + 2)
    ELSE MunchLiteral(s, it, it + 1)

\* The iterator that replaces string_iter once an error was returned:
\* "".char_indices(), which has nothing left.
FusedIter(s) == Len(s)

\* A variant of Fuse that leaves the iterator where the error was found.
Fuse_Not(s, res) == res

\* GrokSplit::next, given what try_next returned: "Fuse the iterator if we
\* error out".
Fuse(s, res) ==
    IF res.tok.kind = "PatternError"
    THEN [tok |-> res.tok, it |-> FusedIter(s)]
    ELSE res

\* GrokSplit::next
GrokSplitNext(s, it) ==
    CHOOSE next \in {Fuse(s, res) : res \in {try_next(s, it)}} : TRUE

\* grok_split(string): the iterator starts at byte index 0.
grok_split(s) == [string |-> s, string_iter |-> 0]


(***************************************************************************)
(* The compiler: Grok::compile and Grok::compile_regex                     *)
(***************************************************************************)
MAX_RECURSION == 1024

\* HashMap / BTreeMap as functions.
EmptyMap == [k \in {} |-> <<>>]

Insert(m, k, v) == [x \in (DOMAIN m) \cup {k} |-> IF x = k THEN v ELSE m[x]]

\* The values of Error (payloads are strings; "" where the variant has none).
NoErr == [kind |-> "None", payload |-> <<>>]

RecursionTooDeep == [kind |-> "RecursionTooDeep", payload |-> <<>>]

CompiledPatternIsEmpty(p) == [kind |-> "CompiledPatternIsEmpty", payload |-> p]

DefinitionNotFound(n) == [kind |-> "DefinitionNotFound", payload |-> n]

RegexCompilationFailed(d) == [kind |-> "RegexCompilationFailed", payload |-> d]

GenericCompilationFailure(d) == [kind |-> "GenericCompilationFailure", payload |-> d]

\* format!("{e:?}") of a GrokPatternError (derive(Debug)); a char prints in
\* single quotes, with ' and \ escaped by a backslash.
DebugChar(c) == IF c \in {"'", "\\"} THEN <<"'", "\\", c, "'">> ELSE <<"'", c, "'">>

DebugError(e) ==
    IF e.kind = "InvalidCharacter"
    THEN <<"I","n","v","a","l","i","d","C","h","a","r","a","c","t","e","r","(">>
         \o DebugChar(e.char) \o <<")">>
    ELSE IF e.kind = "InvalidPattern"
    THEN <<"I","n","v","a","l","i","d","P","a","t","t","e","r","n">>
    ELSE <<"I","n","v","a","l","i","d","P","a","t","t","e","r","n",
           "D","e","f","i","n","i","t","i","o","n">>

\* format!("Alias {key} already exists")
AliasExists(key) ==
    <<"A","l","i","a","s"," ">> \o key
    \o <<" ","a","l","r","e","a","d","y"," ","e","x","i","s","t","s">>

\* A variant of MatchName that numbers the groups from 1.
MatchName_FromOne(index) == <<"_", "n", "_">> \o Decimal(index + 1)


\* format!("_n_{index}")
MatchName(index) == <<"_", "n", "_">> \o Decimal(index)

\* format!("{orig_key}[{count}]")
SuffixedKey(orig_key, count) == orig_key \o <<"[">> \o Decimal(count) \o <<"]">>

\* A variant of OrigKey that keys every placeholder by its NAME.
OrigKey_NameOnly(name, alias) == name

\* let orig_key = if alias.is_empty() { name } else { alias };
OrigKey(name, alias) == IF alias = <<>> THEN name ELSE alias

\* A variant of ResolvedKey that numbers the suffixes from 2.
ResolvedKey_FromTwo(orig_key, count) ==
    IF count = 0 THEN orig_key ELSE SuffixedKey(orig_key, count + 1)

\* The key of the count-th placeholder with this orig_key (count from 0).
ResolvedKey(orig_key, count) ==
    IF count = 0 THEN orig_key ELSE SuffixedKey(orig_key, count)

\* "This is unlikely but will really mess things up if it happens": the
\* check made after the counter was incremented to count + 1.
AliasClash(aliases_extra, key, count) ==
    count + 1 > 1 /\ key \in DOMAIN aliases_extra

\* A variant of NonCapturing that ignores the alias.
NonCapturing_AnyAlias(with_alias_only, alias) == with_alias_only

\* with_alias_only && alias.is_empty(): the placeholder is not captured.
NonCapturing(with_alias_only, alias) == with_alias_only /\ alias = <<>>

\* A frame of pattern_stack: (GrokSplit, BTreeMap of overrides).  `frame` is
\* the number of frames pushed before this one (bookkeeping for the log).
Frame(body, frame) ==
    [it |-> grok_split(body), pattern_overrides |-> EmptyMap, frame |-> frame]

\* A variant of ChooseBody that expands an unknown name to the empty body.
ChooseBody_EmptyWhenMissing(top, next, patterns) ==
    IF next.definition # <<>>
    THEN [ok |-> TRUE, body |-> next.definition]
    ELSE IF next.name \in DOMAIN top.pattern_overrides
    THEN [ok |-> TRUE, body |-> top.pattern_overrides[next.name]]
    ELSE IF next.name \in DOMAIN patterns
    THEN [ok |-> TRUE, body |-> patterns[next.name]]
    ELSE [ok |-> TRUE, body |-> <<>>]

\* A variant of ChooseBody that prefers the dictionary to the override map.
ChooseBody_DictionaryFirst(top, next, patterns) ==
    IF next.definition # <<>>
    THEN [ok |-> TRUE, body |-> next.definition]
    ELSE IF next.name \in DOMAIN patterns
    THEN [ok |-> TRUE, body |-> patterns[next.name]]
    ELSE IF next.name \in DOMAIN top.pattern_overrides
    THEN [ok |-> TRUE, body |-> top.pattern_overrides[next.name]]
    ELSE [ok |-> FALSE, body |-> <<>>]

\* The body a placeholder expands to, or the DefinitionNotFound error:
\* the inline definition, else the entry of the current frame's override
\* map, else the dictionary's.
ChooseBody(top, next, patterns) ==
    IF next.definition # <<>>
    THEN [ok |-> TRUE, body |-> next.definition]
    ELSE IF next.name \in DOMAIN top.pattern_overrides
    THEN [ok |-> TRUE, body |-> top.pattern_overrides[next.name]]
    ELSE IF next.name \in DOMAIN patterns
    THEN [ok |-> TRUE, body |-> patterns[next.name]]
    ELSE [ok |-> FALSE, body |-> <<>>]

\* The frame put back on the stack after a placeholder was read from it:
\* an inline definition is inserted into its override map.
RecordDefinition(top, next) ==
    IF next.definition # <<>>
    THEN [top EXCEPT !.pattern_overrides = Insert(@, next.name, next.definition)]
    ELSE top

\* A variant of DepthCheck that refuses the MAX_RECURSION-th frame.
DepthCheck_AtLimit(c) ==
    IF c.result.kind = "Err" THEN c
    ELSE IF Len(c.pattern_stack) >= MAX_RECURSION
    THEN [c EXCEPT !.result = [kind |-> "Err", error |-> RecursionTooDeep]]
    ELSE c

\* The end of the loop body, reached unless the body returned an error:
\* if pattern_stack.len() > MAX_RECURSION { return Err(RecursionTooDeep) }
DepthCheck(c) ==
    IF c.result.kind = "Err" THEN c
    ELSE IF Len(c.pattern_stack) > MAX_RECURSION
    THEN [c EXCEPT !.result = [kind |-> "Err", error |-> RecursionTooDeep]]
    ELSE c

\* The log is a history of the expansion, kept for the properties: it
\* records the first MaxLog placeholders that were expanded.
MaxLog == 12

Logged(l, entry) == IF Len(l) < MaxLog THEN Append(l, entry) ELSE l

\* What the log keeps of an expanded placeholder: its token, the body it
\* expands to, the frame it was read from, and its synthetic group name
\* when it is captured.
LogEntry(next, body, frame, capturing, match_name) ==
    [tok |-> next, body |-> body, frame |-> frame,
     capturing |-> capturing, match_name |-> match_name]

\* The capturing branch once key is computed: the clash check, the two
\* tables and the opener.  `extra` is aliases_extra with the counter of
\* orig_key incremented to count + 1.
Capture(c, pushed, next, entry, match_name, key, count, extra) ==
    IF AliasClash(extra, key, count)
    THEN [c EXCEPT !.pattern_stack = pushed,
                   !.frames = @ + 1,
                   !.index = @ + 1,
                   !.aliases_extra = extra,
                   !.result = [kind |-> "Err",
                               error |-> GenericCompilationFailure(AliasExists(key))]]
    ELSE [c EXCEPT !.pattern_stack = pushed,
                   !.frames = @ + 1,
                   !.index = @ + 1,
                   !.aliases_extra = extra,
                   !.extracts = IF next.extract # <<>>
                                THEN Insert(@, key, next.extract) ELSE @,
                   !.aliases = Insert(@, match_name, key),
                   !.named_regex = @ \o <<"(", "?", "<">> \o match_name \o <<">">>,
                   !.log = Logged(@, entry)]

\* aliases_extra.entry(orig_key).or_insert(0)
Count(aliases_extra, orig_key) ==
    IF orig_key \in DOMAIN aliases_extra THEN aliases_extra[orig_key] ELSE 0

\* The capturing branch: count is the number of earlier uses of orig_key.
CaptureAs(c, pushed, next, entry, orig_key, count) ==
    Capture(c, pushed, next, entry, MatchName(c.index),
            ResolvedKey(orig_key, count), count,
            Insert(c.aliases_extra, orig_key, count + 1))

\* The opener of a placeholder whose body was pushed: `pushed` is the stack
\* with the new frame on it.
Opener(c, pushed, next, body, frame, with_alias_only) ==
    IF NonCapturing(with_alias_only, next.alias)
    THEN [c EXCEPT !.pattern_stack = pushed,
                   !.frames = @ + 1,
                   !.named_regex = @ \o <<"(", "?", ":">>,
                   !.log = Logged(@, LogEntry(next, body, frame, FALSE, <<>>))]
    ELSE CaptureAs(c, pushed, next,
                   LogEntry(next, body, frame, TRUE, MatchName(c.index)),
                   OrigKey(next.name, next.alias),
                   Count(c.aliases_extra, OrigKey(next.name, next.alias)))

\* The GrokPattern arm once the body is chosen; `top` is the frame the
\* placeholder was read from, `rest` the frames below it.
Expand(c, rest, top, next, chosen, with_alias_only) ==
    IF ~chosen.ok
    THEN [c EXCEPT !.pattern_stack = Append(rest, top),
                   !.result = [kind |-> "Err", error |-> DefinitionNotFound(next.name)]]
    ELSE Opener(c,
                rest \o <<RecordDefinition(top, next), Frame(chosen.body, c.frames)>>,
                next, chosen.body, top.frame, with_alias_only)

\* The GrokPattern arm of the loop body; `top` is the frame that was
\* popped, pushed back with its iterator advanced.
PlaceholderArm(c, rest, top, next, patterns, with_alias_only) ==
    CHOOSE stepped \in
        {Expand(c, rest, top, next, chosen, with_alias_only) :
            chosen \in {ChooseBody(top, next, patterns)}} : TRUE

\* The frames `rest` with the override map of the exhausted frame `top`
\* copied into the frame that becomes the top one.
Inherit(rest, top) ==
    IF rest = <<>> THEN rest
    ELSE [rest EXCEPT ![Len(rest)].pattern_overrides =
              [n \in DOMAIN @ \cup DOMAIN top.pattern_overrides |->
                  IF n \in DOMAIN top.pattern_overrides
                  THEN top.pattern_overrides[n] ELSE @[n]]]

\* A variant of Arms in which an exhausted frame hands its override map to
\* the frame below it.
Arms_InheritOnPop(c, rest, top, next, patterns, with_alias_only) ==
    IF next.kind = "None"
    THEN [c EXCEPT !.pattern_stack = Inherit(rest, top),
                   !.named_regex = Append(@, ")")]
    ELSE IF next.kind = "RegularExpression"
    THEN [c EXCEPT !.pattern_stack = Append(rest, top),
                   !.named_regex = @ \o next.string]
    ELSE IF next.kind = "PatternError"
    THEN [c EXCEPT !.pattern_stack = Append(rest, top),
                   !.result = [kind |-> "Err",
                               error |-> GenericCompilationFailure(DebugError(next.error))]]
    ELSE PlaceholderArm(c, rest, top, next, patterns, with_alias_only)


\* match it.next(): `top` is the popped frame with its iterator advanced,
\* `next` what the iterator returned.
Arms(c, rest, top, next, patterns, with_alias_only) ==
    IF next.kind = "None"
    THEN [c EXCEPT !.pattern_stack = rest,
                   !.named_regex = Append(@, ")")]
    ELSE IF next.kind = "RegularExpression"
    THEN [c EXCEPT !.pattern_stack = Append(rest, top),
                   !.named_regex = @ \o next.string]
    ELSE IF next.kind = "PatternError"
    THEN [c EXCEPT !.pattern_stack = Append(rest, top),
                   !.result = [kind |-> "Err",
                               error |-> GenericCompilationFailure(DebugError(next.error))]]
    ELSE PlaceholderArm(c, rest, top, next, patterns, with_alias_only)

\* it.next() on the popped frame `top`, with its result res.
Advance(c, rest, top, res, patterns, with_alias_only) ==
    Arms(c, rest, [top EXCEPT !.it.string_iter = res.it], res.tok,
         patterns, with_alias_only)

\* pattern_stack.pop() gave `top` and left `rest`.
Popped(c, rest, top, patterns, with_alias_only) ==
    CHOOSE stepped \in
        {Advance(c, rest, top, res, patterns, with_alias_only) :
            res \in {GrokSplitNext(top.it.string, top.it.string_iter)}} : TRUE

\* One iteration of `while let Some((mut it, pattern_overrides)) =
\* pattern_stack.pop()`, for a non-empty stack.
LoopStep(c, patterns, with_alias_only) ==
    CHOOSE checked \in
        {DepthCheck(stepped) :
            stepped \in {Popped(c, SubSeq(c.pattern_stack, 1, Len(c.pattern_stack) - 1),
                                c.pattern_stack[Len(c.pattern_stack)],
                                patterns, with_alias_only)}} : TRUE

\* A variant of PopChar that trims one character too many.
PopChar_Two(s) == IF Len(s) < 2 THEN <<>> ELSE SubSeq(s, 1, Len(s) - 2)

\* named_regex.pop(): the string without its last character (unchanged when
\* empty).
PopChar(s) == IF s = <<>> THEN s ELSE SubSeq(s, 1, Len(s) - 1)

\* A variant of LoopExit that trims nothing.
LoopExit_NoTrim(c) == [c EXCEPT !.result = [kind |-> "Expanded", error |-> NoErr]]


\* A variant of LoopExit that trims the last character and goes round the
\* loop again.
LoopExit_Again(c) == [c EXCEPT !.named_regex = PopChar(@)]

\* The end of compile_regex: the loop has ended with an empty stack.
LoopExit(c) ==
    [c EXCEPT !.named_regex = PopChar(@),
              !.result = [kind |-> "Expanded", error |-> NoErr]]

\* The locals of compile_regex when it starts on `pattern`.
CompileStart(pattern) ==
    [pattern_stack |-> <<Frame(pattern, 0)>>,
     frames        |-> 1,
     named_regex   |-> <<>>,
     aliases       |-> EmptyMap,
     aliases_extra |-> EmptyMap,
     extracts      |-> EmptyMap,
     index         |-> 0,
     log           |-> <<>>,
     result        |-> [kind |-> "Running", error |-> NoErr]]

\* compile_regex run to its return.
RECURSIVE RunLoop(_, _, _)
RunLoop(c, patterns, with_alias_only) ==
    IF c.result.kind # "Running" THEN c
    ELSE IF c.pattern_stack = <<>> THEN LoopExit(c)
    ELSE RunLoop(LoopStep(c, patterns, with_alias_only), patterns, with_alias_only)

compile_regex(patterns, pattern, with_alias_only) ==
    RunLoop(CompileStart(pattern), patterns, with_alias_only)


(***************************************************************************)
(* The compiled Pattern and the engine adapters                            *)
(***************************************************************************)
\* enum Engine: the adapter the build selects.
Engines == {"Pcre2", "FancyRegex", "Onig", "Regex"}

\* The engine's view of the flat regex: its capture groups, numbered from 1
\* in the order of their opening parentheses.  A group opens at "(?<name>"
\* (named) or at a '(' that no '?' follows (unnamed); "(?:", "(?<=" and
\* "(?<!" open no capture group.  The sources of this model have no escaped
\* or bracketed parenthesis.
OpensNamed(r, i) ==
    /\ r[i] = "("
    /\ i + 3 <= Len(r)
    /\ r[i + 1] = "?"
    /\ r[i + 2] = "<"
    /\ r[i + 3] \notin {"=", "!"}

OpensUnnamed(r, i) ==
    /\ r[i] = "("
    /\ i < Len(r) => r[i + 1] # "?"

CaptureStarts(r) == {i \in 1..Len(r) : OpensNamed(r, i) \/ OpensUnnamed(r, i)}

NamedStarts(r) == {i \in 1..Len(r) : OpensNamed(r, i)}

RECURSIVE NameStop(_, _)
NameStop(r, j) ==
    IF j > Len(r) THEN j
    ELSE IF r[j] = ">" THEN j
    ELSE NameStop(r, j + 1)

\* The name of the group that opens at position p.
GroupName(r, p) == SubSeq(r, p + 3, NameStop(r, p + 3) - 1)

\* The index of the group that opens at position p, `starts` being the
\* positions where capture groups open.
GroupIndex(starts, p) == Cardinality({q \in starts : q <= p})

\* The named groups the engine reports: (index, name) pairs.
NamedGroupsOf(r, starts) ==
    {[idx |-> GroupIndex(starts, p), name |-> GroupName(r, p)] : p \in NamedStarts(r)}

NamedGroups(r) == NamedGroupsOf(r, CaptureStarts(r))

LargestIndex(gs) == CHOOSE i \in {g.idx : g \in gs} : \A g \in gs : g.idx <= i

SmallestIndex(gs) == CHOOSE i \in {g.idx : g \in gs} : \A g \in gs : i <= g.idx

\* pcre2 and fancy-regex: alias.get(name).map_or(name, |s| s)
AliasGet(alias, name) == IF name \in DOMAIN alias THEN alias[name] ELSE name

\* pcre2 and fancy-regex: names.insert(name, i) for i ascending, so that a
\* key is left with the largest index it was inserted with.
TableByGet(groups, alias) ==
    [key \in {AliasGet(alias, g.name) : g \in groups} |->
        LargestIndex({g \in groups : AliasGet(alias, g.name) = key})]

\* regex and onig: alias.iter().find(|&(_k, v)| *v == name), the entries of
\* the alias map whose value is the group's name.
AliasFind(alias, name) == {k \in DOMAIN alias : alias[k] = name}

\* The group names for which find has more than one entry to return: which
\* one it returns depends on the iteration order of the HashMap.
Ambiguous(groups, alias) ==
    {g.name : g \in {h \in groups : Cardinality(AliasFind(alias, h.name)) > 1}}

\* What find returned for each ambiguous name.
Finds(groups, alias) ==
    {f \in [Ambiguous(groups, alias) -> DOMAIN alias] :
        \A name \in DOMAIN f : f[name] \in AliasFind(alias, name)}

\* The key regex and onig give a group name, f being what find returned
\* for the ambiguous names.
FoundKey(alias, f, name) ==
    IF name \in DOMAIN f THEN f[name]
    ELSE IF AliasFind(alias, name) = {} THEN name
    ELSE CHOOSE k \in AliasFind(alias, name) : TRUE

\* regex: names.insert(name, i) for i ascending.
TableByFind(groups, alias, f) ==
    [key \in {FoundKey(alias, f, g.name) : g \in groups} |->
        LargestIndex({g \in groups : FoundKey(alias, f, g.name) = key})]

\* onig: foreach_name calls back once for each name, with the indices of
\* the groups of that name, and the adapter inserts cap_idx[0].  The index
\* a key is left with is the first index of one of the names it was
\* inserted for: which one depends on the order of the callbacks.
FirstIndexes(groups, alias, f, key) ==
    {SmallestIndex({h \in groups : h.name = g.name}) :
        g \in {h \in groups : FoundKey(alias, f, h.name) = key}}

TablesByName(groups, alias, f) ==
    {t \in [{FoundKey(alias, f, g.name) : g \in groups} -> {g.idx : g \in groups}] :
        \A key \in DOMAIN t : t[key] \in FirstIndexes(groups, alias, f, key)}

\* InnerPattern::new once the engine has accepted the regex: the tables
\* `names` can be.
AdapterTables(engine, groups, alias) ==
    IF engine \in {"Pcre2", "FancyRegex"} THEN {TableByGet(groups, alias)}
    ELSE IF engine = "Regex"
    THEN {TableByFind(groups, alias, f) : f \in Finds(groups, alias)}
    ELSE UNION {TablesByName(groups, alias, f) : f \in Finds(groups, alias)}

\* Option<T>.
None == [some |-> FALSE]

Some(v) == [some |-> TRUE, value |-> v]

\* The printable ASCII characters from '!' (33) to '~' (126), in the order
\* of their bytes ("" stands where the grave accent, 96, is: no string of
\* TLA+ holds it, and no key of this model).
Ascii ==
    <<
      "!", "\"", "#", "$", "%", "&", "'", "(", ")", "*", "+", ",",
      "-", ".", "/", "0", "1", "2", "3", "4", "5", "6", "7", "8",
      "9", ":", ";", "<", "=", ">", "?", "@", "A", "B", "C", "D",
      "E", "F", "G", "H", "I", "J", "K", "L", "M", "N", "O", "P",
      "Q", "R", "S", "T", "U", "V", "W", "X", "Y", "Z", "[", "\\",
      "]", "^", "_", "" , "a", "b", "c", "d", "e", "f", "g", "h",
      "i", "j", "k", "l", "m", "n", "o", "p", "q", "r", "s", "t",
      "u", "v", "w", "x", "y", "z", "{", "|", "}", "~"
    >>

\* The byte of a character.
Byte(c) == 32 + (CHOOSE i \in 1..Len(Ascii) : Ascii[i] = c)

\* Ord for str: a < b, byte by byte, a proper prefix coming first.
RECURSIVE StrLess(_, _)
StrLess(a, b) ==
    IF b = <<>> THEN FALSE
    ELSE IF a = <<>> THEN TRUE
    ELSE IF a[1] = b[1] THEN StrLess(Tail(a), Tail(b))
    ELSE Byte(a[1]) < Byte(b[1])

\* The first key of a non-empty set of keys.
FirstKey(keys) == CHOOSE k \in keys : \A o \in keys \ {k} : StrLess(k, o)

\* BTreeMap::keys / BTreeMap::iter: the keys in ascending order.
RECURSIVE Ascending(_), AscendingFrom(_, _)
Ascending(keys) == IF keys = {} THEN <<>> ELSE AscendingFrom(FirstKey(keys), keys)

AscendingFrom(first, keys) == <<first>> \o Ascending(keys \ {first})

\* Pattern::capture_names: self.names.keys().
capture_names(table) == Ascending(DOMAIN table)

\* Pattern::get_extract: self.extracts.get(name).
get_extract(extract_table, name) ==
    IF name \in DOMAIN extract_table THEN Some(extract_table[name]) ELSE None

\* The captures of a match are the groups that did not participate in it
\* (`absent'); what a participating group captured is written as the
\* group's index, the text being no part of this model.
\* Matches::get: names.get(name_or_alias).and_then(|idx| captures.get(idx)).
get(table, absent, name_or_alias) ==
    IF name_or_alias \notin DOMAIN table THEN None
    ELSE IF table[name_or_alias] \in absent THEN None
    ELSE Some(table[name_or_alias])

\* A variant of Participating that skips nothing.
Participating_All(keys, table, absent) == keys

\* MatchesIter::next until it returns None: the entries of names in key
\* order, those of absent groups skipped.
Participating(keys, table, absent) ==
    SelectSeq(keys, LAMBDA k : table[k] \notin absent)

Pairs(keys, table) == [i \in 1..Len(keys) |-> <<keys[i], table[keys[i]]>>]

\* A variant of iter that walks the groups in the order of their indices,
\* which is the order of the synthetic names _n_0, _n_1, ... up to _n_9.
RECURSIVE ByIndex(_, _), ByIndexFrom(_, _, _)
ByIndex(keys, table) ==
    IF keys = {} THEN <<>>
    ELSE ByIndexFrom(CHOOSE k \in keys : \A o \in keys : table[k] <= table[o], keys, table)

ByIndexFrom(first, keys, table) == <<first>> \o ByIndex(keys \ {first}, table)

iter_ByIndex(table, absent) ==
    Pairs(Participating(ByIndex(DOMAIN table, table), table, absent), table)

iter(table, absent) ==
    Pairs(Participating(Ascending(DOMAIN table), table, absent), table)

\* How many groups of a regex stay out of a match, at most.
MaxAbsent == 1

RECURSIVE AbsentSets(_, _)
AbsentSets(groups, n) ==
    IF n = 0 THEN {{}}
    ELSE {a \cup b : a \in AbsentSets(groups, n - 1), b \in {{}} \cup {{g} : g \in groups}}

\* Result<Option<Captures>, Error>, what the engine's captures(text)
\* returns.
BackendOk(v) == [ok |-> TRUE, value |-> v]

BackendErr == [ok |-> FALSE, value |-> None]

\* What captures(text) can return for the text of the run: no match, the
\* captures of a match, or an error met while matching (a match limit, a
\* stack overflow).  Regex::captures of the regex crate returns an Option
\* and has no error.
Outcomes(e, count) ==
    {BackendOk(None)}
        \cup {BackendOk(Some(a)) : a \in AbsentSets(1..count, MaxAbsent)}
        \cup (IF e = "Regex" THEN {} ELSE {BackendErr})

\* The compiled regex of a Pattern: its number of capture groups and what
\* captures() returns for the text of the run.
Regexes(e, r) ==
    {[built |-> TRUE, groups |-> Cardinality(CaptureStarts(r)), captures |-> o] :
        o \in Outcomes(e, Cardinality(CaptureStarts(r)))}

NoRegex == [built |-> FALSE, groups |-> 0, captures |-> BackendOk(None)]

\* A variant of match_against that takes a failed match for a match that
\* captured nothing.
match_against_OrDefault(captured) ==
    IF captured.ok THEN captured.value ELSE Some({})

\* match_against of the adapters: captures(text).ok().flatten() (pcre2,
\* fancy-regex), Ok(r) => r, Err(_) => None (onig), captures(text) (regex).
match_against(captured) ==
    IF captured.ok THEN captured.value ELSE None

\* The threads that share the Pattern.
Threads == {"t1", "t2"}

\* What a call returned to the thread that made it.
Call(thread, call, arg, value) ==
    [thread |-> thread, call |-> call, arg |-> arg, value |-> value]

NoCall == Call("", "", <<>>, None)

(***************************************************************************)
(* Inputs                                                                  *)
(***************************************************************************)
\* The number of pieces a generated source is made of, at most.
MaxItems == 2

\* The dictionary (Grok::patterns) the compiles run against.
DictBase ==
    LET names == {<<"A">>, <<"B">>, <<"C">>, <<"E">>, <<"I">>, <<"J">>, <<"M">>} IN
    [n \in names |->
        CASE n = <<"A">> -> <<"x">>                                  \* x
          [] n = <<"B">> -> <<"%","{","A","}","y">>                  \* %{A}y
          [] n = <<"C">> -> <<"%","{","A",":","a","}","%","{","A",":","a","}">>
          [] n = <<"E">> -> <<>>                                     \* empty body
          [] n = <<"I">> -> <<"%","{","N","=","z","}">>             \* %{N=z}
          [] n = <<"J">> -> <<"%","{","N","}">>                     \* %{N}
          [] n = <<"M">> -> <<"%","{">>]                             \* %{ (malformed)

\* The same with an entry for N, the name the inline definitions define.
DictWithN == Insert(DictBase, <<"N">>, <<"w">>)

Dictionaries == {DictBase, DictWithN}

\* The pieces generated sources are concatenated from.
Pieces ==
    {
     <<"x">>,                                                   \* x
     <<"%","{","A","}">>,                                       \* %{A}
     <<"%","{","A",":","a","}">>,                               \* %{A:a}
     <<"%","{","A",":","a","[","1","]",":","e","}">>,           \* %{A:a[1]:e}
     <<"%","{","N","=","y","}">>,                               \* %{N=y}
     <<"%","{","N",":","a","=","z","}">>,                       \* %{N:a=z}
     <<"%","{","N","}">>,                                       \* %{N}
     <<"%","{","A",":",":","e","}">>,                           \* %{A::e}
     <<"%","{","C","}">>                                        \* %{C}
    }

RECURSIVE Concat(_)
Concat(ss) == IF ss = <<>> THEN <<>> ELSE ss[1] \o Concat(Tail(ss))

GeneratedSources ==
    {Concat(ss) : ss \in UNION {[1..n -> Pieces] : n \in 0..MaxItems}}

\* Sources for the cases the generated ones do not reach.
ExtraSources ==
    {
     <<"%","{","I","}","%","{","N","}">>,                       \* %{I}%{N}
     <<"%","{","N","=","y","}","%","{","J","}">>,               \* %{N=y}%{J}
     <<"%","{","M","}">>,                                       \* %{M}
     <<"%","{","Q","}">>,                                       \* %{Q}
     <<"%","{">>,                                               \* %{
     <<"%","{","A",":","}">>,                                   \* %{A:}
     <<"%","%","{","A","}">>,                                   \* %%{A}
     <<"%","{","B","}">>,                                       \* %{B}
     <<"%","{","E","}">>,                                       \* %{E}
     <<"%","{","N","=","y","}","%","{","N",":","a","=","z","}","%","{","N","}">>,\* %{N=y}%{N:a=z}%{N}
     <<"%","{","A",":","a","}","%","{","A",":","a","}","%","{","A",":","a","[","1","]","}">>,\* %{A:a}%{A:a}%{A:a[1]}
     <<"%","{","A",":","a","[","1","]","}","%","{","A",":","a","}","%","{","A",":","a","}">>,\* %{A:a[1]}%{A:a}%{A:a}
     <<"%","{","A","}","%","{","B",":","A","}","x">>,           \* %{A}%{B:A}x
     <<"%","{","C",":","c","}","%","{","A","}","%","{","A",":","b","}">>\* %{C:c}%{A}%{A:b}
    }

Sources == GeneratedSources \cup ExtraSources

\* The length of the strings over ScanAlphabet the scanner is run on, and
\* the number of colon-separated words of the placeholders it is run on,
\* at most; how many times next() is called again after it returned None.
MaxScanLen == 4

MaxWords == 4

MaxNones == 2

ScanAlphabet == {"%", "{", "}", ":", "a"}

AllStrings == UNION {[1..n -> ScanAlphabet] : n \in 0..MaxScanLen}

\* Placeholders, well-formed and not: "%{", up to MaxWords words joined by
\* ':', a definition or none, closed or not, between a prefix and a suffix.
Words == {<<>>, <<"a">>, <<".">>, <<"!">>}

RECURSIVE Join(_)
Join(ws) ==
    IF Len(ws) = 1 THEN ws[1] ELSE ws[1] \o <<":">> \o Join(Tail(ws))

Heads == {Join(ws) : ws \in UNION {[1..n -> Words] : n \in 1..MaxWords}}

Definitions == {<<>>, <<"=">>, <<"=", "d">>, <<"=", "d", "{">>}

Closings == {<<>>, <<"}">>}

Prefixes == {<<>>, <<"x">>, <<"%">>}

Suffixes == {<<>>, <<"x">>}

PlaceholderStrings ==
    {p \o <<"%", "{">> \o h \o d \o c \o x :
        p \in Prefixes, h \in Heads, d \in Definitions, c \in Closings,
        x \in Suffixes}

ScanStrings == AllStrings \cup PlaceholderStrings

(***************************************************************************)
(* State                                                                   *)
(***************************************************************************)
VARIABLES
    patterns,          \* Grok::patterns, the dictionary
    pattern,           \* compile's argument: the source
    with_alias_only,   \* compile's argument
    pattern_stack,     \* compile_regex: the stack of (GrokSplit, overrides)
    frames,            \* the number of frames pushed so far
    named_regex,       \* compile_regex: the flat regex being written
    aliases,           \* compile_regex: synthetic group name -> key
    aliases_extra,     \* compile_regex: orig_key -> number of uses
    extracts,          \* compile_regex: key -> extract
    index,             \* compile_regex: the next synthetic index
    log,               \* the placeholders expanded so far, in order
    result,            \* where compile is: Running, Expanded, Ok or Err
    split,             \* a GrokSplit being iterated on its own
    emitted,           \* the components its next() has returned
    nones,             \* how many times its next() has returned None
    engine,            \* the Engine of the build
    names,             \* Pattern: inner.names, key -> group index
    regex,             \* Pattern: inner.regex
    matches,           \* the Option<Matches> each thread holds
    returned,          \* what the last call on the Pattern returned
    created,           \* the dictionary as the constructor of Grok left it
    adds,              \* the add_pattern calls made since, in order
    compiled,          \* the compile calls that have returned, in order
    files,             \* build.rs: the lines of patterns/*.pattern, each with its file
    read,              \* build.rs: how many of them the iterator has yielded
    lines,             \* build.rs: the Vec of (name, body, file)
    table,             \* build.rs: the entries written to PATTERNS
    build              \* build.rs: where main is

compile_vars ==
    <<pattern_stack, frames, named_regex, aliases, aliases_extra, extracts,
      index, log, result>>

build_vars == <<files, read, lines, table, build>>

input_vars == <<patterns, pattern, with_alias_only, created, adds, compiled, build_vars>>

split_vars == <<split, emitted, nones>>

pattern_vars == <<engine, names, regex, matches, returned>>

vars == <<input_vars, compile_vars, split_vars, pattern_vars>>

\* The locals of compile_regex as one record, and their update.
Locals ==
    [pattern_stack |-> pattern_stack, frames |-> frames,
     named_regex |-> named_regex, aliases |-> aliases,
     aliases_extra |-> aliases_extra, extracts |-> extracts,
     index |-> index, log |-> log, result |-> result]

SetLocals(c) ==
    /\ pattern_stack' = c.pattern_stack
    /\ frames' = c.frames
    /\ named_regex' = c.named_regex
    /\ aliases' = c.aliases
    /\ aliases_extra' = c.aliases_extra
    /\ extracts' = c.extracts
    /\ index' = c.index
    /\ log' = c.log
    /\ result' = c.result

\* No GrokSplit is being iterated on its own.
SplitIdle ==
    /\ split = grok_split(<<>>)
    /\ emitted = <<>>
    /\ nones = 0

\* grok.compile(pattern, with_alias_only) has just been called: the locals
\* of compile_regex are those of CompileStart(pattern).
CompileCalled ==
    /\ with_alias_only \in BOOLEAN
    /\ pattern_stack = <<Frame(pattern, 0)>>
    /\ frames = 1
    /\ named_regex = <<>>
    /\ aliases = EmptyMap
    /\ aliases_extra = EmptyMap
    /\ extracts = EmptyMap
    /\ index = 0
    /\ log = <<>>
    /\ result = [kind |-> "Running", error |-> NoErr]

\* No Pattern has been built yet.
NoPattern ==
    /\ names = EmptyMap
    /\ regex = NoRegex
    /\ matches = [t \in Threads |-> None]
    /\ returned = NoCall

\* No add_pattern has been called yet and no compile has returned; the
\* build script is not being run.
Created ==
    /\ created = patterns
    /\ adds = <<>>
    /\ compiled = <<>>
    /\ files = <<>>
    /\ read = 0
    /\ lines = <<>>
    /\ table = <<>>
    /\ build = "not run"

Init ==
    /\ patterns \in Dictionaries
    /\ pattern \in Sources
    /\ engine \in Engines
    /\ Created
    /\ CompileCalled
    /\ NoPattern
    /\ SplitIdle

(***************************************************************************)
(* The steps of compile                                                    *)
(***************************************************************************)
Running == result.kind = "Running"

\* What the iterator of the top frame returns next.
TopNext ==
    GrokSplitNext(pattern_stack[Len(pattern_stack)].it.string,
                  pattern_stack[Len(pattern_stack)].it.string_iter).tok

\* One iteration of the loop of compile_regex.
DoLoopStep ==
    /\ \E c \in {LoopStep(l, patterns, with_alias_only) : l \in {Locals}} : SetLocals(c)
    /\ UNCHANGED <<input_vars, split_vars, pattern_vars>>

\* The top iterator is exhausted: the frame is dropped and ')' written.
StepExhausted ==
    /\ Running
    /\ pattern_stack # <<>>
    /\ TopNext.kind = "None"
    /\ DoLoopStep

\* A literal run is copied to the output.
StepLiteral ==
    /\ Running
    /\ pattern_stack # <<>>
    /\ TopNext.kind = "RegularExpression"
    /\ DoLoopStep

\* A placeholder is expanded: its body is pushed and its opener written.
StepPlaceholder ==
    /\ Running
    /\ pattern_stack # <<>>
    /\ TopNext.kind = "GrokPattern"
    /\ DoLoopStep

\* The scanner reports a malformed placeholder.
StepError ==
    /\ Running
    /\ pattern_stack # <<>>
    /\ TopNext.kind = "PatternError"
    /\ DoLoopStep

\* The stack is empty: the loop ends, compile_regex trims the last
\* character and returns.
ExitLoop ==
    /\ Running
    /\ pattern_stack = <<>>
    /\ SetLocals(LoopExit(Locals))
    /\ UNCHANGED <<input_vars, split_vars, pattern_vars>>

\* compile: an empty flat regex is an error.
CompileEmpty ==
    /\ result.kind = "Expanded"
    /\ named_regex = <<>>
    /\ result' = [kind |-> "Err", error |-> CompiledPatternIsEmpty(pattern)]
    /\ UNCHANGED <<input_vars, split_vars, pattern_vars, pattern_stack, frames,
                   named_regex, aliases, aliases_extra, extracts, index, log>>

\* compile: Pattern::new hands the flat regex to the adapter of the engine.
\* The engine accepts the regex or not (its syntax is not part of this
\* model); when it does, the adapter builds the key table.
PatternNew ==
    /\ result.kind = "Expanded"
    /\ named_regex # <<>>
    /\ \/ /\ result' = [kind |-> "Ok", error |-> NoErr]
          /\ \E groups \in {NamedGroups(named_regex)} :
                names' \in AdapterTables(engine, groups, aliases)
          /\ regex' \in Regexes(engine, named_regex)
       \/ /\ result' = [kind |-> "Err", error |-> RegexCompilationFailed(<<>>)]
          /\ UNCHANGED <<names, regex>>
    /\ UNCHANGED <<input_vars, split_vars, engine, matches, returned, pattern_stack, frames,
                   named_regex, aliases, aliases_extra, extracts, index, log>>

Next ==
    \/ StepExhausted
    \/ StepLiteral
    \/ StepPlaceholder
    \/ StepError
    \/ ExitLoop
    \/ CompileEmpty
    \/ PatternNew

Spec == Init /\ [][Next]_vars

(***************************************************************************)
(* The scanner iterated on its own                                         *)
(***************************************************************************)
\* No compile is running.
CompileIdle ==
    /\ patterns = EmptyMap
    /\ pattern = <<>>
    /\ with_alias_only = FALSE
    /\ pattern_stack = <<>>
    /\ frames = 0
    /\ named_regex = <<>>
    /\ aliases = EmptyMap
    /\ aliases_extra = EmptyMap
    /\ extracts = EmptyMap
    /\ index = 0
    /\ log = <<>>
    /\ result = [kind |-> "Idle", error |-> NoErr]

\* grok_split(string) has just been called.
ScanInit ==
    /\ split \in {grok_split(s) : s \in ScanStrings}
    /\ emitted = <<>>
    /\ nones = 0
    /\ CompileIdle
    /\ engine = "Pcre2"
    /\ Created
    /\ NoPattern

\* next() returns Some(component): a literal, a placeholder or an error.
SplitNextSome ==
    /\ \E res \in {GrokSplitNext(split.string, split.string_iter)} :
          /\ res.tok.kind # "None"
          /\ emitted' = Append(emitted, res.tok)
          /\ split' = [split EXCEPT !.string_iter = res.it]
    /\ UNCHANGED <<input_vars, compile_vars, pattern_vars, nones>>

\* next() returns None.
SplitNextNone ==
    /\ nones < MaxNones
    /\ \E res \in {GrokSplitNext(split.string, split.string_iter)} :
          /\ res.tok.kind = "None"
          /\ split' = [split EXCEPT !.string_iter = res.it]
    /\ nones' = nones + 1
    /\ UNCHANGED <<input_vars, compile_vars, pattern_vars, emitted>>

ScanNext ==
    \/ SplitNextSome
    \/ SplitNextNone

ScanSpec == ScanInit /\ [][ScanNext]_vars

(***************************************************************************)
(* compile on deep expansions                                              *)
(***************************************************************************)
\* A chain of MAX_RECURSION definitions L0 -> "%{L1}", L1 -> "%{L2}", ...,
\* the last one a literal.
ChainName(i) == <<"L">> \o Decimal(i)

Reference(name) == <<"%", "{">> \o name \o <<"}">>

ChainBody(i) ==
    IF i = MAX_RECURSION - 1 THEN <<"x">> ELSE Reference(ChainName(i + 1))

ChainIndex(name) == CHOOSE i \in 0..(MAX_RECURSION - 1) : ChainName(i) = name

ChainDictionary ==
    [name \in {ChainName(i) : i \in 0..(MAX_RECURSION - 1)} |->
        ChainBody(ChainIndex(name))]

\* Where the deep sources enter the chain.
ChainStarts == {0, 1}

ChainSource(k) == <<"x">> \o Reference(ChainName(k))

\* Definitions that refer to themselves: R directly, S through T.
CyclicDictionary ==
    Insert(Insert(Insert(EmptyMap,
        <<"R">>, Reference(<<"R">>)),
        <<"S">>, <<"x">> \o Reference(<<"T">>)),
        <<"T">>, Reference(<<"S">>) \o <<"y">>)

CyclicSources == {Reference(<<"R">>), Reference(<<"S">>)}

ShallowSources == {<<>>, <<"x">>, <<"%", "{">>}

DeepInit ==
    /\ \/ /\ patterns = ChainDictionary
          /\ pattern \in {ChainSource(k) : k \in ChainStarts}
       \/ /\ patterns = CyclicDictionary
          /\ pattern \in CyclicSources \cup ShallowSources
    /\ engine = "Pcre2"
    /\ Created
    /\ CompileCalled
    /\ NoPattern
    /\ SplitIdle

DeepSpec == DeepInit /\ [][Next]_vars

\* compile_regex is one sequential loop run by the thread that called
\* compile, and compile goes on to Pattern::new when the loop returns: a
\* step that can be taken is taken.
TerminationInit ==
    /\ \/ /\ patterns \in Dictionaries
          /\ pattern \in Sources
       \/ /\ patterns = CyclicDictionary
          /\ pattern \in CyclicSources
    /\ engine = "Pcre2"
    /\ Created
    /\ CompileCalled
    /\ NoPattern
    /\ SplitIdle

TerminationSpec == TerminationInit /\ [][Next]_vars /\ WF_vars(Next)

(***************************************************************************)
(* The calls on a compiled Pattern                                         *)
(***************************************************************************)
\* The sources the Patterns are compiled from: among them sources with
\* groups written by hand, (?<x>y), next to placeholders.
PatternSources ==
    {
     <<"%","{","A",":","x","}","(","?","<","x",">","y",")">>,  \* %{A:x}(?<x>y)
     <<"(","?","<","x",">","y",")","%","{","A",":","x","}">>,  \* (?<x>y)%{A:x}
     <<"(","w",")","%","{","A",":","a","}">>,  \* (w)%{A:a}
     <<"(","?",":","w",")","%","{","A",":","a","}">>,  \* (?:w)%{A:a}
     <<"%","{","A",":","b","}","%","{","A",":","a","}">>,  \* %{A:b}%{A:a}
     <<"%","{","B","}","%","{","A",":","a","}">>,  \* %{B}%{A:a}
     <<"%","{","A",":","a","}","%","{","A",":","a",":","f","}","%","{","A",":","a","[","1","]",":","e","}">>,  \* %{A:a}%{A:a:f}%{A:a[1]:e}
     <<"%","{","A",":","a",":","e","}">>,  \* %{A:a:e}
     <<"%","{","A",":",":","e","}">>,  \* %{A::e}
     <<"%","{","A","}">>,  \* %{A}
     <<"x">>,  \* x
     <<"%","{","A",":","a","}","%","{","A",":","a","}">>,  \* %{A:a}%{A:a}
     <<"%","{","B",":","b",":","e","}","%","{","A",":",":","f","}">>,  \* %{B:b:e}%{A::f}
     <<"%","{","E","}">>,  \* %{E}
     <<"%","{">>,  \* %{
     <<"(","?","<","x",">","y",")","(","?","<","x",">","z",")">>,  \* (?<x>y)(?<x>z)
     <<>>  \* the empty source
    }

PatternInit ==
    /\ patterns = DictBase
    /\ pattern \in PatternSources
    /\ engine \in Engines
    /\ Created
    /\ CompileCalled
    /\ NoPattern
    /\ SplitIdle

\* The keys the calls are made with: the keys of the tables, the keys the
\* compiler resolved, and one that is in no table.
KeyArgs ==
    DOMAIN names \cup DOMAIN extracts \cup {aliases[n] : n \in DOMAIN aliases}
        \cup {<<"q">>}

\* Pattern::match_against: Regex::captures on the text of the run.
MatchAgainst ==
    /\ result.kind = "Ok"
    /\ \E t \in Threads :
          /\ matches' = [matches EXCEPT ![t] = match_against(regex.captures)]
          /\ returned' = Call(t, "match_against", <<>>, match_against(regex.captures))
    /\ UNCHANGED <<input_vars, compile_vars, split_vars, engine, names, regex>>

\* A variant of CaptureNames that takes the keys out of the table.
CaptureNames_Draining ==
    /\ result.kind = "Ok"
    /\ \E t \in Threads :
          returned' = Call(t, "capture_names", <<>>, capture_names(names))
    /\ names' = EmptyMap
    /\ UNCHANGED <<input_vars, compile_vars, split_vars, engine, regex, matches>>

\* Pattern::capture_names
CaptureNames ==
    /\ result.kind = "Ok"
    /\ \E t \in Threads :
          returned' = Call(t, "capture_names", <<>>, capture_names(names))
    /\ UNCHANGED <<input_vars, compile_vars, split_vars, engine, names, regex, matches>>

\* Pattern::get_extract
GetExtract ==
    /\ result.kind = "Ok"
    /\ \E t \in Threads, name \in KeyArgs :
          returned' = Call(t, "get_extract", name, get_extract(extracts, name))
    /\ UNCHANGED <<input_vars, compile_vars, split_vars, engine, names, regex, matches>>

\* Matches::get, on the Matches the thread holds.
Get ==
    /\ result.kind = "Ok"
    /\ \E t \in Threads, name \in KeyArgs :
          /\ matches[t].some
          /\ returned' = Call(t, "get", name, get(names, matches[t].value, name))
    /\ UNCHANGED <<input_vars, compile_vars, split_vars, engine, names, regex, matches>>

\* Matches::iter, collected.
Iter ==
    /\ result.kind = "Ok"
    /\ \E t \in Threads :
          /\ matches[t].some
          /\ returned' = Call(t, "iter", <<>>, iter(names, matches[t].value))
    /\ UNCHANGED <<input_vars, compile_vars, split_vars, engine, names, regex, matches>>

\* A variant of add_pattern that leaves an existing entry alone.
add_pattern_KeepFirst(dictionary, name, body) ==
    IF name \in DOMAIN dictionary THEN dictionary ELSE Insert(dictionary, name, body)

\* Grok::add_pattern: self.patterns.insert(name, pattern).
add_pattern(dictionary, name, body) == Insert(dictionary, name, body)

\* The add_pattern calls before compile, at most, and the arguments of
\* add_pattern.
MaxAdds == 2

AddNames == {<<"B">>, <<"N">>}

AddBodies == {<<"v">>, <<"%","{","A","}","w">>}

\* The add_pattern calls made once compile has returned, at most.
MaxLaterAdds == 1

\* Grok::add_pattern, called once compile has returned.
AddPatternLater ==
    /\ result.kind \in {"Ok", "Err"}
    /\ Len(adds) < MaxLaterAdds
    /\ \E name \in AddNames, body \in AddBodies :
          /\ patterns' = add_pattern(patterns, name, body)
          /\ adds' = Append(adds, <<name, body>>)
    /\ UNCHANGED <<pattern, with_alias_only, created, compiled, build_vars, compile_vars,
                   split_vars, pattern_vars>>

PatternNext ==
    \/ Next
    \/ MatchAgainst
    \/ CaptureNames
    \/ GetExtract
    \/ Get
    \/ Iter
    \/ AddPatternLater

PatternSpec == PatternInit /\ [][PatternNext]_vars

(***************************************************************************)
(* The factory: constructors and add_pattern                               *)
(***************************************************************************)
\* The table build.rs generates from patterns/*.pattern, sorted by name.
\* The pattern files are not in the source tree: two entries stand for the
\* table.
PATTERNS == << <<<<"A">>, <<"x">>>>, <<<<"B">>, <<"%","{","A","}","y">>>> >>

\* BTreeMap::from_iter: the pairs inserted in order.
RECURSIVE FromIter(_)
FromIter(pairs) ==
    IF pairs = <<>> THEN EmptyMap
    ELSE Insert(FromIter(SubSeq(pairs, 1, Len(pairs) - 1)),
                pairs[Len(pairs)][1], pairs[Len(pairs)][2])

\* Grok::empty() and Grok::with_default_patterns()
Constructed == {EmptyMap, FromIter(PATTERNS)}

FactorySources ==
    {
     <<"%","{","A","}">>,  \* %{A}
     <<"%","{","N","}">>,  \* %{N}
     <<"%","{","B","}">>,  \* %{B}
     <<"%","{","B",":","b","}","%","{","N","}">>,  \* %{B:b}%{N}
     <<"%","{">>,  \* %{
     <<>>  \* the empty source
    }

FactoryInit ==
    /\ patterns \in Constructed
    /\ pattern \in FactorySources
    /\ engine = "Pcre2"
    /\ Created
    /\ CompileCalled
    /\ NoPattern
    /\ SplitIdle

\* compile has not taken a step.
NotStarted ==
    /\ result.kind = "Running"
    /\ pattern_stack = <<Frame(pattern, 0)>>

\* Grok::add_pattern, called before compile.
AddPattern ==
    /\ NotStarted
    /\ Len(adds) < MaxAdds
    /\ \E name \in AddNames, body \in AddBodies :
          /\ patterns' = add_pattern(patterns, name, body)
          /\ adds' = Append(adds, <<name, body>>)
    /\ UNCHANGED <<pattern, with_alias_only, created, compiled, build_vars, compile_vars,
                   split_vars, pattern_vars>>

FactoryNext ==
    \/ AddPattern
    \/ Next

FactorySpec == FactoryInit /\ [][FactoryNext]_vars

(***************************************************************************)
(* The build script: the table of default patterns                         *)
(***************************************************************************)
\* How many pattern files there are and how many lines each has, at most.
MaxFiles == 2

MaxLines == 2

\* file_stem of the pattern files, in the order glob yields them.
Stems == <<<<"f">>, <<"g">>>>

\* The lines a pattern file is made of: comments, the empty line, and
\* definitions "NAME body".
FileLines ==
    {<<"#", " ", "c">>,              \* # c
     <<"#", "A", " ", "x">>,         \* #A x
     <<>>,
     <<"A", " ", "x">>,              \* A x
     <<"A", " ", "y">>,              \* A y
     <<"B", " ", "x", " ", "y">>}    \* B x y

Contents == UNION {[1..n -> FileLines] : n \in 0..MaxLines}

\* BufReader::new(f).lines().zip(iter::repeat(path)) for one file.
Zipped(content, path) == [i \in 1..Len(content) |-> <<content[i], path>>]

\* flat_map over the files in glob order.
RECURSIVE FlatMap(_, _)
FlatMap(contents, k) ==
    IF k > Len(contents) THEN <<>>
    ELSE Zipped(contents[k], Stems[k]) \o FlatMap(contents, k + 1)

\* str::split_once(' '): the text before the first space and the text
\* after it.
RECURSIVE SpaceAt(_, _)
SpaceAt(line, i) ==
    IF i > Len(line) THEN 0
    ELSE IF line[i] = " " THEN i
    ELSE SpaceAt(line, i + 1)

split_once(line) ==
    <<SubSeq(line, 1, SpaceAt(line, 1) - 1),
      SubSeq(line, SpaceAt(line, 1) + 1, Len(line))>>

\* Ord for (String, String, OsString).
TupleLess(a, b) ==
    \/ StrLess(a[1], b[1])
    \/ /\ a[1] = b[1]
       /\ \/ StrLess(a[2], b[2])
          \/ /\ a[2] = b[2]
             /\ StrLess(a[3], b[3])

\* The position of a least element of a non-empty Vec.
Least(v) == CHOOSE i \in 1..Len(v) : \A j \in 1..Len(v) : ~TupleLess(v[j], v[i])

\* The Vec without its element at position i.
Without(v, i) == SubSeq(v, 1, i - 1) \o SubSeq(v, i + 1, Len(v))

\* Vec::sort: the elements in ascending order, each as many times as the
\* Vec holds it.
RECURSIVE sort(_)
sort(v) ==
    IF v = <<>> THEN v
    ELSE <<v[Least(v)]>> \o sort(Without(v, Least(v)))

\* main has just started on the pattern files.
BuildInit ==
    /\ files \in {FlatMap(contents, 1) : contents \in [1..MaxFiles -> Contents]}
    /\ read = 0
    /\ lines = <<>>
    /\ table = <<>>
    /\ build = "collecting"
    /\ created = EmptyMap
    /\ adds = <<>>
    /\ compiled = <<>>
    /\ CompileIdle
    /\ engine = "Pcre2"
    /\ NoPattern
    /\ SplitIdle

\* The line the iterator yields next.
NextLine == files[read + 1][1]

BuildUnchanged ==
    UNCHANGED <<pattern, with_alias_only, adds, compiled, files, compile_vars, split_vars,
                pattern_vars>>

\* .filter(|(line, _)| !line.starts_with('#'))
FilterComment ==
    /\ build = "collecting"
    /\ read < Len(files)
    /\ NextLine # <<>> /\ NextLine[1] = "#"
    /\ read' = read + 1
    /\ UNCHANGED <<lines, table, build, patterns, created>>
    /\ BuildUnchanged

\* .filter(|(line, _)| !line.is_empty())
FilterEmpty ==
    /\ build = "collecting"
    /\ read < Len(files)
    /\ NextLine = <<>>
    /\ read' = read + 1
    /\ UNCHANGED <<lines, table, build, patterns, created>>
    /\ BuildUnchanged

\* .map(|(line, path)| { let (a, b) = line.split_once(' ').unwrap(); .. })
\* and collect.
Gather ==
    /\ build = "collecting"
    /\ read < Len(files)
    /\ NextLine # <<>> /\ NextLine[1] # "#"
    /\ \E ab \in {split_once(NextLine)} :
          lines' = Append(lines, <<ab[1], ab[2], files[read + 1][2]>>)
    /\ read' = read + 1
    /\ UNCHANGED <<table, build, patterns, created>>
    /\ BuildUnchanged

\* lines.sort()
Sort ==
    /\ build = "collecting"
    /\ read = Len(files)
    /\ lines' = sort(lines)
    /\ build' = "sorted"
    /\ UNCHANGED <<read, table, patterns, created>>
    /\ BuildUnchanged

\* for (key, value, _) in &lines: the entries of PATTERNS and PATTERNS_COW.
WriteTable ==
    /\ build = "sorted"
    /\ table' = [i \in 1..Len(lines) |-> <<lines[i][1], lines[i][2]>>]
    /\ build' = "written"
    /\ UNCHANGED <<read, lines, patterns, created>>
    /\ BuildUnchanged

\* Grok::with_default_patterns() on the generated table.
WithDefaultPatterns ==
    /\ build = "written"
    /\ patterns' = FromIter(table)
    /\ created' = patterns'
    /\ build' = "loaded"
    /\ UNCHANGED <<read, lines, table>>
    /\ BuildUnchanged

BuildNext ==
    \/ FilterComment
    \/ FilterEmpty
    \/ Gather
    \/ Sort
    \/ WriteTable
    \/ WithDefaultPatterns

BuildSpec == BuildInit /\ [][BuildNext]_vars

(***************************************************************************)
(* compile called again on the same Grok                                   *)
(***************************************************************************)
\* The number of compile calls made after the first one.
MaxCompiles == 2

\* A variant of AfterCompile in which the inline definitions of the call
\* stay behind in the dictionary.
RECURSIVE AfterCompile_Injected(_, _)
AfterCompile_Injected(dictionary, l) ==
    IF l = <<>> THEN dictionary
    ELSE IF l[1].tok.definition = <<>>
    THEN AfterCompile_Injected(dictionary, Tail(l))
    ELSE AfterCompile_Injected(Insert(dictionary, l[1].tok.name, l[1].tok.definition),
                               Tail(l))

\* self.patterns once compile(&self, ..) has returned, `l` being the
\* placeholders the call expanded: compile_regex inserts an inline
\* definition into the override map of a frame of its own stack, and the
\* stack is dropped when it returns.
AfterCompile(dictionary, l) == dictionary

RecompileSources ==
    {<<"%", "{", "N", "=", "y", "}", "%", "{", "N", "}">>,   \* %{N=y}%{N}
     <<"%", "{", "N", "}">>,                                  \* %{N}
     <<"%", "{", "I", "}", "%", "{", "A", ":", "a", "}">>,   \* %{I}%{A:a}
     <<"%", "{">>,                                            \* %{
     <<>>}

RecompileInit ==
    /\ patterns \in Dictionaries
    /\ pattern \in RecompileSources
    /\ engine = "Pcre2"
    /\ Created
    /\ CompileCalled
    /\ NoPattern
    /\ SplitIdle

\* What is kept of a compile call that has returned.
Finished ==
    [pattern |-> pattern, with_alias_only |-> with_alias_only,
     named_regex |-> named_regex, aliases |-> aliases, result |-> result,
     inline |-> {log[i].tok.name :
                    i \in {j \in 1..Len(log) : log[j].tok.definition # <<>>}}]

\* compile has returned, and is called again on the same Grok.
CompileAgain ==
    /\ result.kind \in {"Ok", "Err"}
    /\ Len(compiled) < MaxCompiles
    /\ compiled' = Append(compiled, Finished)
    /\ patterns' = AfterCompile(patterns, log)
    /\ pattern' \in RecompileSources
    /\ SetLocals(CompileStart(pattern'))
    /\ names' = EmptyMap
    /\ regex' = NoRegex
    /\ UNCHANGED <<with_alias_only, created, adds, build_vars, split_vars, engine, matches,
                   returned>>

RecompileNext ==
    \/ CompileAgain
    \/ Next

RecompileSpec == RecompileInit /\ [][RecompileNext]_vars



(***************************************************************************)
(* Properties                                                              *)
(***************************************************************************)
\* compile has returned a Pattern.
Compiled == result.kind = "Ok"

\* compile has returned, with a Pattern or an error.
Returned == result.kind \in {"Ok", "Err"}

\* The raw key of a placeholder: ALIAS if non-empty, else NAME.
RawKey(tok) == IF tok.alias # <<>> THEN tok.alias ELSE tok.name

\* raw_key, raw_key[1], raw_key[2], ...: the key of the j-th placeholder
\* (from 0) with this raw key.
NthKey(raw_key, j) ==
    IF j = 0 THEN raw_key ELSE raw_key \o <<"[">> \o Decimal(j) \o <<"]">>

\* The positions in a log of the captured placeholders.
Captured(l) == {i \in 1..Len(l) : l[i].capturing}

\* How many captured placeholders before position i have the raw key of
\* the one at position i.
EarlierSame(l, i) ==
    Cardinality({j \in Captured(l) : j < i /\ RawKey(l[j].tok) = RawKey(l[i].tok)})

\* C1. Duplicate resolution: after a successful compile, the placeholders
\* that are captured and share a raw key have, in expansion order, the keys
\* raw_key, raw_key[1], ..., raw_key[k-1] in the name table.
C1_DuplicateResolution ==
    Compiled =>
        \A i \in Captured(log) :
            /\ log[i].match_name \in DOMAIN aliases
            /\ aliases[log[i].match_name] = NthKey(RawKey(log[i].tok), EarlierSame(log, i))

\* A successful compile in which three captured placeholders share a raw key.
C1_Witness ==
    /\ Compiled
    /\ \E i \in Captured(log) : EarlierSame(log, i) = 2

\* C2. After a successful compile no two synthetic group names have the
\* same user-facing key.
C2_KeysDistinct ==
    Compiled =>
        \A m1, m2 \in DOMAIN aliases : m1 # m2 => aliases[m1] # aliases[m2]

\* "(?:" and "(?<_n_k>"
NonCapturingOpener == <<"(", "?", ":">>

NamedOpener(k) == <<"(", "?", "<", "_", "n", "_">> \o Decimal(k) \o <<">">>

\* key is name, or name followed by a bracketed suffix.
DefaultsTo(key, name) ==
    \/ key = name
    \/ /\ Len(key) > Len(name)
       /\ SubSeq(key, 1, Len(name)) = name
       /\ key[Len(name) + 1] = "["

\* A loop step that reads a placeholder and writes its opener.
ExpandsPlaceholder ==
    /\ Running
    /\ pattern_stack # <<>>
    /\ TopNext.kind = "GrokPattern"
    /\ result'.error.kind \notin {"DefinitionNotFound", "GenericCompilationFailure"}

\* C3. With alias_only a placeholder without ALIAS writes "(?:", adds no
\* name-table entry and uses no synthetic index; any other placeholder
\* writes "(?<_n_k>" for the next index k and adds exactly the entry of
\* _n_k, whose key defaults to NAME when ALIAS is empty.
C3_Openers ==
    [][ExpandsPlaceholder =>
          IF with_alias_only /\ TopNext.alias = <<>>
          THEN /\ named_regex' = named_regex \o NonCapturingOpener
               /\ aliases' = aliases
               /\ index' = index
          ELSE /\ named_regex' = named_regex \o NamedOpener(index)
               /\ index' = index + 1
               /\ MatchName(index) \notin DOMAIN aliases
               /\ DOMAIN aliases' = DOMAIN aliases \cup {MatchName(index)}
               /\ \A m \in DOMAIN aliases : aliases'[m] = aliases[m]
               /\ TopNext.alias = <<>> =>
                     DefaultsTo(aliases'[MatchName(index)], TopNext.name)
               /\ TopNext.alias # <<>> =>
                     DefaultsTo(aliases'[MatchName(index)], TopNext.alias)
    ]_vars

\* A successful alias_only compile that met both kinds of placeholder.
C3_Witness ==
    /\ Compiled
    /\ with_alias_only
    /\ \E i, j \in 1..Len(log) :
          /\ log[i].tok.alias = <<>> /\ ~log[i].capturing
          /\ log[j].tok.alias # <<>> /\ log[j].capturing

\* The run of compile_regex on the same source and dictionary in the other
\* mode.
OtherMode == compile_regex(patterns, pattern, ~with_alias_only)

\* The log entries of the placeholders that have an ALIAS, in expansion
\* order.
AliasedEntries(c) == SelectSeq(c.log, LAMBDA e : e.tok.alias # <<>>)

\* The user-facing keys of the aliased placeholders, in expansion order.
AliasedKeys(c) ==
    [i \in 1..Len(AliasedEntries(c)) |-> c.aliases[AliasedEntries(c)[i].match_name]]

\* The extract entry of a key: a one-element sequence, or empty if absent.
ExtractOf(c, key) ==
    IF key \in DOMAIN c.extracts THEN <<c.extracts[key]>> ELSE <<>>

\* The extract entries of the aliased placeholders, in expansion order.
AliasedExtracts(c) ==
    [i \in 1..Len(AliasedKeys(c)) |-> ExtractOf(c, AliasedKeys(c)[i])]

\* The user-facing keys of a name table in the order of the synthetic
\* group names _n_0, _n_1, ...
TableKeys(c) ==
    [i \in 1..Cardinality(DOMAIN c.aliases) |->
        IF MatchName(i - 1) \in DOMAIN c.aliases
        THEN c.aliases[MatchName(i - 1)] ELSE <<>>]

\* Both modes have expanded the source: this run with alias_only = true,
\* the other with alias_only = false.
BothModes ==
    /\ Compiled
    /\ with_alias_only
    /\ OtherMode.result.kind = "Expanded"

\* The alias_only = true run agrees with the alias_only = false run on the
\* aliased placeholders.
SameForAliased ==
    /\ AliasedKeys(Locals) = AliasedKeys(OtherMode)
    /\ AliasedExtracts(Locals) = AliasedExtracts(OtherMode)
    /\ TableKeys(Locals) = AliasedKeys(OtherMode)

NamesApartFromAliases ==
    {OtherMode.aliases[OtherMode.log[i].match_name] :
        i \in {j \in 1..Len(OtherMode.log) : OtherMode.log[j].tok.alias = <<>>}}
    \cap {OtherMode.log[i].tok.alias : i \in 1..Len(OtherMode.log)} = {}

EarlierDefinitions(l, i) ==
    {j \in 1..(i - 1) : /\ l[j].frame = l[i].frame
                        /\ l[j].tok.name = l[i].tok.name
                        /\ l[j].tok.definition # <<>>}

Latest(S) == CHOOSE j \in S : \A k \in S : k <= j

\* C5. A placeholder with an inline definition expands to it; a placeholder
\* without one, whose name an earlier placeholder of the same body defined
\* inline, expands to the latest such definition, whatever the dictionary
\* holds for the name.
C5_InlineDefinitions ==
    \A i \in 1..Len(log) :
        IF log[i].tok.definition # <<>>
        THEN log[i].body = log[i].tok.definition
        ELSE EarlierDefinitions(log, i) # {} =>
                log[i].body = log[Latest(EarlierDefinitions(log, i))].tok.definition

\* A name in the dictionary was defined inline twice, differently, and
\* then used.
C5_Witness ==
    \E i \in 1..Len(log) :
        /\ log[i].tok.definition = <<>>
        /\ log[i].tok.name \in DOMAIN patterns
        /\ \E j, k \in EarlierDefinitions(log, i) :
              /\ j < k
              /\ log[j].tok.definition # log[k].tok.definition
              /\ log[k].tok.definition # patterns[log[i].tok.name]

\* The placeholder has no inline definition, and neither the dictionary nor
\* the override map of any frame on the stack has its name.
DefinedNowhere(tok) ==
    /\ tok.definition = <<>>
    /\ tok.name \notin DOMAIN patterns
    /\ \A f \in 1..Len(pattern_stack) :
          tok.name \notin DOMAIN pattern_stack[f].pattern_overrides

\* C7. When the expansion reads a placeholder that is defined nowhere,
\* compile fails with DefinitionNotFound carrying exactly its NAME, and a
\* failed compile never produces a Pattern.
C7_DefinitionNotFound ==
    [][/\ (Running /\ pattern_stack # <<>> /\ TopNext.kind = "GrokPattern"
             /\ DefinedNowhere(TopNext))
          => /\ result'.kind = "Err"
             /\ result'.error.kind = "DefinitionNotFound"
             /\ result'.error.payload = TopNext.name
       /\ result.kind = "Err" => result' = result
    ]_vars

\* compile failed with DefinitionNotFound after expanding a placeholder,
\* on a name that no frame left on the stack defines.
C7_Witness ==
    /\ result.kind = "Err"
    /\ result.error.kind = "DefinitionNotFound"
    /\ result.error.payload \notin DOMAIN patterns
    /\ \A f \in 1..Len(pattern_stack) :
          result.error.payload \notin DOMAIN pattern_stack[f].pattern_overrides
    /\ log # <<>>

\* C9. compile fails with CompiledPatternIsEmpty, carrying the source, if
\* and only if the source is the empty string: the expanded regex of a
\* non-empty source is never empty.
C9_EmptyOnlyForEmptySource ==
    /\ result.kind = "Expanded" => (named_regex = <<>> <=> pattern = <<>>)
    /\ result.kind = "Ok" => pattern # <<>>
    /\ (result.kind = "Err" /\ result.error.kind = "CompiledPatternIsEmpty")
          => (pattern = <<>> /\ result.error.payload = pattern)
    /\ (Returned /\ pattern = <<>>)
          => (result.kind = "Err" /\ result.error.kind = "CompiledPatternIsEmpty")

\* compile has returned CompiledPatternIsEmpty.
C9_Witness ==
    /\ result.kind = "Err"
    /\ result.error.kind = "CompiledPatternIsEmpty"

\* The grammar of a placeholder: "%{" NAME (":" ALIAS (":" EXTRACT)?)?
\* ("=" DEFINITION)? "}", on the characters of s from position i (from 1).
NameChars == Upper \cup Lower \cup DigitSet \cup {"_"}

AliasChars == NameChars \cup {"-", "[", "]", "."}

PlaceholderStarts(s) == {i \in 1..(Len(s) - 1) : s[i] = "%" /\ s[i + 1] = "{"}

Occurrences(w, ch) == {k \in 1..Len(w) : w[k] = ch}

First(S) == CHOOSE j \in S : \A k \in S : j <= k

\* The position in P with n positions of P before it.
Nth(P, n) == CHOOSE p \in P : Cardinality({q \in P : q < p}) = n

\* The text between "%{" and the first "}" after it.
Inner(s, i) ==
    SubSeq(s, i + 2, First({e \in (i + 2)..Len(s) : s[e] = "}"}) - 1)

HasDefinition(inner) == Occurrences(inner, "=") # {}

WordsPart(inner) ==
    IF HasDefinition(inner)
    THEN SubSeq(inner, 1, First(Occurrences(inner, "=")) - 1)
    ELSE inner

Definition(inner) ==
    SubSeq(inner, First(Occurrences(inner, "=")) + 1, Len(inner))

WordCount(head) == Cardinality(Occurrences(head, ":")) + 1

\* The k-th colon-separated word of head.
Word(head, k) ==
    SubSeq(head,
           IF k = 1 THEN 1 ELSE Nth(Occurrences(head, ":"), k - 2) + 1,
           IF k = WordCount(head) THEN Len(head)
           ELSE Nth(Occurrences(head, ":"), k - 1) - 1)

WellFormedInner(inner) ==
    /\ WordCount(WordsPart(inner)) <= 3
    /\ Word(WordsPart(inner), 1) # <<>>
    /\ \A k \in 1..Len(Word(WordsPart(inner), 1)) : Word(WordsPart(inner), 1)[k] \in NameChars
    /\ \A w \in 2..WordCount(WordsPart(inner)) :
          \A k \in 1..Len(Word(WordsPart(inner), w)) : Word(WordsPart(inner), w)[k] \in AliasChars
    /\ WordCount(WordsPart(inner)) > 1 => Word(WordsPart(inner), WordCount(WordsPart(inner))) # <<>>
    /\ HasDefinition(inner) =>
          /\ Definition(inner) # <<>>
          /\ Occurrences(Definition(inner), "{") = {}

\* The "%{" at position i is terminated and what it encloses is a
\* placeholder.
WellFormedAt(s, i) ==
    /\ \E e \in (i + 2)..Len(s) : s[e] = "}"
    /\ WellFormedInner(Inner(s, i))

\* The scanner has run to the end of the source.
Scanned == nones > 0

ErrorEmitted == \E k \in 1..Len(emitted) : emitted[k].kind = "PatternError"

\* C8. Whenever the source holds a "%{" that is unterminated or does not
\* enclose a well-formed placeholder, the scanner emits an Error token.
C8_MalformedRejected ==
    (Scanned /\ \E i \in PlaceholderStarts(split.string) : ~WellFormedAt(split.string, i))
        => ErrorEmitted

\* The text of a token: of a literal its string, of a placeholder its
\* pattern.
TokenText(tok) == IF tok.kind = "GrokPattern" THEN tok.pattern ELSE tok.string

RECURSIVE Texts(_)
Texts(toks) ==
    IF toks = <<>> THEN <<>> ELSE TokenText(toks[1]) \o Texts(Tail(toks))

\* C10. Scanner partition: while no Error token is emitted, each token
\* starts where the one before it ended, the first at 0, and its text is
\* the source over its range; once the scanner is done the last token ends
\* at the length of the source and the texts concatenate to the source.
C10_ScannerPartition ==
    ~ErrorEmitted =>
        /\ \A k \in 1..Len(emitted) :
              /\ emitted[k].range[1] = IF k = 1 THEN 0 ELSE emitted[k - 1].range[2]
              /\ emitted[k].range[1] < emitted[k].range[2]
              /\ emitted[k].range[2] <= Len(split.string)
              /\ TokenText(emitted[k]) =
                    SubSeq(split.string, emitted[k].range[1] + 1, emitted[k].range[2])
        /\ Scanned =>
              /\ emitted = <<>> => split.string = <<>>
              /\ emitted # <<>> => emitted[Len(emitted)].range[2] = Len(split.string)
              /\ Texts(emitted) = split.string

\* The scanner is done, without Error, with a literal, a placeholder and a
\* literal.
C10_Witness ==
    /\ Scanned
    /\ ~ErrorEmitted
    /\ Len(emitted) = 3
    /\ emitted[1].kind = "RegularExpression"
    /\ emitted[2].kind = "GrokPattern"
    /\ emitted[3].kind = "RegularExpression"

\* The frames the expansion of a deep source needs at once: the source
\* itself and one per definition of the chain from where it enters.
ChainFrames(k) == 1 + (MAX_RECURSION - k)

\* The expansion of the source needs more than MAX_RECURSION frames at
\* once: it enters the chain too early, or refers to the cyclic definition.
NeedsTooManyFrames ==
    \/ pattern \in CyclicSources
    \/ \E k \in ChainStarts :
          pattern = ChainSource(k) /\ ChainFrames(k) > MAX_RECURSION

TooDeep == result.kind = "Err" /\ result.error.kind = "RecursionTooDeep"

\* C6. Whenever the loop goes on after a step, and when it has ended, the
\* stack holds at most MAX_RECURSION frames; it never holds more than one
\* frame above that, and then compile fails with RecursionTooDeep.  compile
\* returns RecursionTooDeep exactly for the sources whose expansion needs
\* more than MAX_RECURSION frames at once, the cyclic one among them.
C6_RecursionBound ==
    /\ ~TooDeep => Len(pattern_stack) <= MAX_RECURSION
    /\ TooDeep => Len(pattern_stack) = MAX_RECURSION + 1
    /\ Returned => (TooDeep <=> NeedsTooManyFrames)

\* compile has failed with RecursionTooDeep on the source that refers to
\* the directly cyclic definition, with one frame too many on the stack.
C6_Witness ==
    /\ TooDeep
    /\ pattern = Reference(<<"R">>)
    /\ patterns = CyclicDictionary
    /\ Len(pattern_stack) = MAX_RECURSION + 1

\* The placeholder tokens the scanner has emitted.
Placeholders == {k \in 1..Len(emitted) : emitted[k].kind = "GrokPattern"}

\* What a placeholder token encloses: its text without "%{" and "}".
Enclosed(tok) == SubSeq(tok.pattern, 3, Len(tok.pattern) - 1)

Within(w, chars) == \A k \in 1..Len(w) : w[k] \in chars

\* C11. Every placeholder token has a non-empty NAME of [A-Za-z0-9_], an
\* ALIAS and an EXTRACT of those characters and "-[].", and a DEFINITION
\* without '{' and '}'; ALIAS and EXTRACT are not both empty when a ':'
\* appeared, and the DEFINITION is not empty when '=' appeared.
C11_FieldsInClass ==
    \A k \in Placeholders :
        /\ emitted[k].name # <<>>
        /\ Within(emitted[k].name, NameChars)
        /\ Within(emitted[k].alias, AliasChars)
        /\ Within(emitted[k].extract, AliasChars)
        /\ Occurrences(emitted[k].definition, "{") = {}
        /\ Occurrences(emitted[k].definition, "}") = {}
        /\ Occurrences(WordsPart(Enclosed(emitted[k])), ":") # {} =>
              ~(emitted[k].alias = <<>> /\ emitted[k].extract = <<>>)
        /\ HasDefinition(Enclosed(emitted[k])) => emitted[k].definition # <<>>

\* A placeholder token with an empty ALIAS, an EXTRACT of the extra
\* characters and a DEFINITION.
C11_Witness ==
    \E k \in Placeholders :
        /\ emitted[k].alias = <<>>
        /\ emitted[k].extract = <<".">>
        /\ emitted[k].definition # <<>>

\* C12. The scanner fuses and is finite: once an Error token was returned
\* every call of next returns None; every returned token moves the iterator
\* forward, and the tokens returned are never more than the characters of
\* the source.
C12_FusedAndFinite ==
    [][/\ ErrorEmitted => (emitted' = emitted /\ nones' = nones + 1)
       /\ emitted' # emitted => split'.string_iter > split.string_iter
       /\ split'.string_iter <= Len(split.string)
       /\ Len(emitted') <= Len(split.string)
    ]_vars

\* next was called twice after an Error token that was returned, after a
\* literal, for a character in the middle of the source.
C12_Witness ==
    /\ nones = 2
    /\ Len(emitted) = 2
    /\ emitted[2].kind = "PatternError"
    /\ emitted[2].error.kind = "InvalidCharacter"

\* The whole source is one string of the placeholder grammar.
OnePlaceholder(s) ==
    /\ 1 \in PlaceholderStarts(s)
    /\ WellFormedAt(s, 1)
    /\ Len(Inner(s, 1)) + 3 = Len(s)

\* The k-th word of what a placeholder encloses, empty when absent.
Field(inner, k) ==
    IF k <= WordCount(WordsPart(inner)) THEN Word(WordsPart(inner), k) ELSE <<>>

DefinitionField(inner) ==
    IF HasDefinition(inner) THEN Definition(inner) ELSE <<>>

\* C13. A source that is one string of the placeholder grammar is scanned
\* as exactly one placeholder token, without Error, over the whole source,
\* whose name, alias, extract and definition are the corresponding
\* substrings, empty when absent.
C13_GrammarScanned ==
    OnePlaceholder(split.string) =>
        /\ Len(emitted) <= 1
        /\ Scanned => Len(emitted) = 1
        /\ emitted # <<>> =>
              /\ emitted[1].kind = "GrokPattern"
              /\ emitted[1].range = <<0, Len(split.string)>>
              /\ emitted[1].pattern = split.string
              /\ emitted[1].name = Field(Inner(split.string, 1), 1)
              /\ emitted[1].alias = Field(Inner(split.string, 1), 2)
              /\ emitted[1].extract = Field(Inner(split.string, 1), 3)
              /\ emitted[1].definition = DefinitionField(Inner(split.string, 1))

\* The scanner is done with a source of the form %{N::E=D}.
C13_Witness ==
    /\ Scanned
    /\ OnePlaceholder(split.string)
    /\ WordCount(WordsPart(Inner(split.string, 1))) = 3
    /\ Len(emitted) = 1
    /\ emitted[1].alias = <<>>
    /\ emitted[1].extract # <<>>
    /\ emitted[1].definition # <<>>


(***************************************************************************)
(* The compiled Pattern                                                    *)
(***************************************************************************)
\* The names of the named groups of the flat regex.
GroupNames == {g.name : g \in NamedGroups(named_regex)}

\* The user-facing keys of the compiled source: the keys the compiler gave
\* the placeholders it captures, and the names of the groups the source
\* writes by hand.
UserKeys ==
    {aliases[n] : n \in DOMAIN aliases \cap GroupNames} \cup (GroupNames \ DOMAIN aliases)

\* A sequence of strings in strictly ascending byte order.
StrictlyAscending(keys) ==
    \A i \in 1..Len(keys) : \A j \in 1..Len(keys) : i < j => StrLess(keys[i], keys[j])

Elements(seq) == {seq[i] : i \in 1..Len(seq)}

CalledCaptureNames == Compiled /\ returned.call = "capture_names"

\* C14: capture_names() of a compiled Pattern returns each user-facing key
\* once, in ascending byte order of the keys, whatever the order of the
\* placeholders in the source.
C14_CaptureNamesSorted ==
    CalledCaptureNames =>
        /\ Elements(returned.value) = UserKeys
        /\ StrictlyAscending(returned.value)

\* The same in the builds whose adapter looks the group name up among the
\* keys of the alias map (pcre2, fancy-regex).
C14_CaptureNamesSortedByGet ==
    engine \in {"Pcre2", "FancyRegex"} => C14_CaptureNamesSorted

\* capture_names is in ascending order in every build, whatever it lists.
C14_Ascending == CalledCaptureNames => StrictlyAscending(returned.value)

\* The name the flat regex gives the group of index idx: for the group of
\* a placeholder, its synthetic name.
NameOfGroup(idx) == (CHOOSE g \in NamedGroups(named_regex) : g.idx = idx).name

CalledIter == Compiled /\ returned.call = "iter"

\* The keys and the group names of the pairs iter yielded, in order.
YieldedKeys == [i \in 1..Len(returned.value) |-> returned.value[i][1]]

YieldedNames == [i \in 1..Len(returned.value) |-> NameOfGroup(returned.value[i][2])]

\* s is t with some elements left out.
RECURSIVE Subsequence(_, _)
Subsequence(s, t) ==
    IF s = <<>> THEN TRUE
    ELSE IF t = <<>> THEN FALSE
    ELSE IF s[1] = t[1] THEN Subsequence(Tail(s), Tail(t))
    ELSE Subsequence(s, Tail(t))

\* C15 (as stated): iterating a match result yields the fields in the
\* lexicographic order of their synthetic group names.
C15_IterBySyntheticNames == CalledIter => StrictlyAscending(YieldedNames)

\* C15 (amended): iterating a match result yields the fields in ascending
\* byte order of the keys they are yielded under, which is the order
\* capture_names lists the keys in.
C15_IterByKeys ==
    CalledIter =>
        /\ StrictlyAscending(YieldedKeys)
        /\ Subsequence(YieldedKeys, capture_names(names))

\* iter has yielded two fields whose keys are in the other order than the
\* synthetic names of their groups.
C15_Witness ==
    /\ CalledIter
    /\ Len(returned.value) >= 2
    /\ ~StrictlyAscending(YieldedNames)

\* The user-facing key of a group of the flat regex.
UserKeyOf(g) == IF g.name \in DOMAIN aliases THEN aliases[g.name] ELSE g.name

\* The groups that resolve to the key, and the last of them.
GroupsOf(key) == {g \in NamedGroups(named_regex) : UserKeyOf(g) = key}

LastGroup(key) == CHOOSE i \in {g.idx : g \in GroupsOf(key)} : \A g \in GroupsOf(key) : g.idx <= i

Collides(key) == Cardinality(GroupsOf(key)) > 1

CalledGet(key) == Compiled /\ returned.call = "get" /\ returned.arg = key

\* What get returns when the key is bound to the group of index idx.
CaptureOf(idx) ==
    IF idx \in matches[returned.thread].value THEN None ELSE Some(idx)

Times(seq, x) == Cardinality({i \in 1..Len(seq) : seq[i] = x})

LastWins(key) ==
    /\ key \in DOMAIN names
    /\ names[key] = LastGroup(key)
    /\ Times(capture_names(names), key) = 1
    /\ CalledGet(key) => returned.value = CaptureOf(LastGroup(key))

\* C16: when several capture groups of the flat regex resolve to the same
\* user-facing key, the adapter binds the key to the group with the largest
\* index, capture_names lists the key once and get(key) returns the capture
\* of that last group, in every engine adapter.
C16_LastOccurrenceWins ==
    Compiled => \A key \in UserKeys : Collides(key) => LastWins(key)

\* The same in the pcre2 and fancy-regex builds.
C16_LastOccurrenceWinsByGet ==
    engine \in {"Pcre2", "FancyRegex"} => C16_LastOccurrenceWins

\* The case of C16 in a pcre2 or fancy-regex build: get has returned the
\* capture of the last of two groups that share a key.
C16_Reached ==
    /\ engine \in {"Pcre2", "FancyRegex"}
    /\ \E key \in UserKeys :
          /\ Collides(key)
          /\ CalledGet(key)
          /\ returned.value = Some(LastGroup(key))

\* The captures of the Matches the call was made on.
AbsentNow == matches[returned.thread].value

\* The pairs iter yielded under the key.
PairsOf(key) == {i \in 1..Len(returned.value) : returned.value[i][1] = key}

ParticipatingKeys == {k \in DOMAIN names : names[k] \notin AbsentNow}

IterAgreesWithGet ==
    /\ \A k \in ParticipatingKeys :
          /\ Cardinality(PairsOf(k)) = 1
          /\ \A i \in PairsOf(k) : Some(returned.value[i][2]) = get(names, AbsentNow, k)
    /\ \A k \in DOMAIN names \ ParticipatingKeys :
          /\ PairsOf(k) = {}
          /\ get(names, AbsentNow, k) = None
    /\ Len(returned.value) = Cardinality(ParticipatingKeys)

\* What iter on the same Matches yields under the key, as get returns it.
Yields(pairs, key) ==
    IF \E i \in 1..Len(pairs) : pairs[i][1] = key
    THEN Some(pairs[CHOOSE i \in 1..Len(pairs) : pairs[i][1] = key][2])
    ELSE None

GetAgreesWithIter ==
    /\ returned.value = Yields(iter(names, AbsentNow), returned.arg)
    /\ returned.arg \notin Elements(capture_names(names)) => returned.value = None

WithExtract(key) ==
    {i \in Captured(log) : aliases[log[i].match_name] = key /\ log[i].tok.extract # <<>>}

\* The extracts of the placeholders that resolved to the key.
ExtractsOf(key) == {log[i].tok.extract : i \in WithExtract(key)}

CalledGetExtract == Compiled /\ returned.call = "get_extract"

\* get_extract returns Some(E) exactly for the extracts E of the key.
ReturnsExtract ==
    /\ \A e \in ExtractsOf(returned.arg) : returned.value = Some(e)
    /\ ExtractsOf(returned.arg) = {} => returned.value = None

\* Only captured placeholders with an EXTRACT have an entry in the extract
\* table, under a key of the name table.
ExtractTable ==
    /\ DOMAIN extracts = {k \in {aliases[n] : n \in DOMAIN aliases} : WithExtract(k) # {}}
    /\ \A i \in 1..Len(log) : ~log[i].capturing => log[i].match_name \notin DOMAIN aliases

\* C18: get_extract(key) returns Some(E) exactly when a capturing
\* placeholder whose resolved key is key was compiled with a non-empty
\* EXTRACT E, and None otherwise; a placeholder that alias_only makes
\* non-capturing records no extract, and every key of the extract table is
\* a user-facing key of the name table.
C18_GetExtract ==
    /\ CalledGetExtract => ReturnsExtract
    /\ Compiled => ExtractTable

\* The same for the compiles that give no two groups the same key.
C18_GetExtractDistinctKeys ==
    (\A m, n \in DOMAIN aliases : m # n => aliases[m] # aliases[n]) => C18_GetExtract

\* get_extract has returned the EXTRACT of a key, and a placeholder that is
\* not captured has an EXTRACT that is in no table.
C18_Reached ==
    /\ CalledGetExtract
    /\ returned.value # None
    /\ \E i \in 1..Len(log) : ~log[i].capturing /\ log[i].tok.extract # <<>>

(***************************************************************************)
(* The dictionary                                                          *)
(***************************************************************************)
\* The add_pattern calls made for the name, and the last of them.
AddsOf(calls, name) == {i \in 1..Len(calls) : calls[i][1] = name}

LastAdd(calls, name) == CHOOSE i \in AddsOf(calls, name) : \A j \in AddsOf(calls, name) : j <= i

\* The dictionary that last-write-wins gives: the body of the last
\* add_pattern for a name, or that of the constructor if there is none.
LastWrites(calls) ==
    [name \in DOMAIN created \cup {calls[i][1] : i \in 1..Len(calls)} |->
        IF AddsOf(calls, name) # {} THEN calls[LastAdd(calls, name)][2]
        ELSE created[name]]

\* The orders the same calls can be made in that keep the calls for one
\* name in their order.
Reorderings(calls) ==
    {[i \in 1..Len(calls) |-> calls[p[i]]] :
        p \in {q \in [1..Len(calls) -> 1..Len(calls)] :
                 /\ \A i, j \in 1..Len(calls) : i # j => q[i] # q[j]
                 /\ \A i, j \in 1..Len(calls) :
                       (i < j /\ calls[q[i]][1] = calls[q[j]][1]) => q[i] < q[j]}}

\* The dictionary after the calls, made in order on the constructed one.
RECURSIVE After(_)
After(calls) ==
    IF calls = <<>> THEN created
    ELSE add_pattern(After(SubSeq(calls, 1, Len(calls) - 1)),
                     calls[Len(calls)][1], calls[Len(calls)][2])

\* The placeholders compile expanded from the dictionary.
\* (No source of FactorySources has a definition of its own.)
ResolvedLastWrites ==
    /\ \A i \in 1..Len(log) :
          /\ log[i].tok.name \in DOMAIN LastWrites(adds)
          /\ log[i].body = LastWrites(adds)[log[i].tok.name]
    /\ result.error.kind = "DefinitionNotFound" =>
          result.error.payload \notin DOMAIN LastWrites(adds)

\* C19: after any sequence of add_pattern calls on an empty or a default
\* factory the dictionary holds, for each name, the body of the most recent
\* add_pattern for it (or the default), compile resolves each name to that
\* body, and the calls made in another order, the calls for one name kept
\* in their order, leave the same dictionary.
C19_LastWriteWins ==
    /\ patterns = LastWrites(adds)
    /\ ResolvedLastWrites
    /\ \A calls \in Reorderings(adds) : After(calls) = patterns

\* compile has expanded a name that add_pattern was called for twice, with
\* different bodies.
C19_Witness ==
    /\ Compiled
    /\ Len(adds) = 2
    /\ adds[1][1] = adds[2][1]
    /\ adds[1][2] # adds[2][2]
    /\ \E i \in 1..Len(log) : log[i].tok.name = adds[1][1]

\* compile has expanded a default name that add_pattern replaced, after
\* calls for two names.
C19_WitnessTwoNames ==
    /\ Compiled
    /\ Len(adds) = 2
    /\ adds[1][1] # adds[2][1]
    /\ \E i \in 1..Len(log) :
          /\ log[i].tok.name \in DOMAIN created
          /\ log[i].body # created[log[i].tok.name]

(***************************************************************************)
(* Immutability of the Pattern                                             *)
(***************************************************************************)
\* The Pattern: the compiled regex, the key table and the extract table.
ThePattern == <<named_regex, regex, names, extracts>>

\* What the call returns when it is the only call made on the Pattern
\* (get and iter on the Matches of a match_against made alone).
Alone(c) ==
    CASE c.call = "match_against" -> match_against(regex.captures)
      [] c.call = "capture_names" -> capture_names(names)
      [] c.call = "get_extract" -> get_extract(extracts, c.arg)
      [] c.call = "get" -> get(names, match_against(regex.captures).value, c.arg)
      [] c.call = "iter" -> iter(names, match_against(regex.captures).value)

\* C20: a compiled Pattern is immutable: no call on it (match_against,
\* capture_names, get_extract, from any thread, in any interleaving) and no
\* later add_pattern on the factory changes it, and each call returns what
\* it returns when run alone.
C20_Immutable ==
    [][Compiled =>
          /\ ThePattern' = ThePattern
          /\ result' = result
          /\ returned'.call # "" => returned'.value = Alone(returned')]_vars

\* Both threads hold a match, add_pattern has been called since the
\* compile, and get_extract has then returned an extract.
C20_Witness ==
    /\ Compiled
    /\ adds # <<>>
    /\ \A t \in Threads : matches[t].some
    /\ returned.call = "get_extract"
    /\ returned.value # None

(***************************************************************************)
(* match_against                                                           *)
(***************************************************************************)
CalledMatchAgainst == Compiled /\ returned.call = "match_against"

\* The engine reported a match for the text.
BackendMatched == regex.captures.ok /\ regex.captures.value.some

\* C21: match_against never reports an error: it returns None when the text
\* does not match and None when the engine fails while matching, and
\* Some(Matches), with the captures of the engine, only when the engine
\* reports a match.
C21_NoneOnError ==
    CalledMatchAgainst =>
        /\ returned.value \in {None} \cup {Some(a) : a \in SUBSET (1..regex.groups)}
        /\ returned.value.some <=> BackendMatched
        /\ BackendMatched => returned.value = regex.captures.value
        /\ matches[returned.thread] = returned.value

\* match_against has returned None for a match that failed in the engine.
C21_Witness ==
    /\ CalledMatchAgainst
    /\ ~regex.captures.ok
    /\ returned.value = None

(***************************************************************************)
(* The key table of the adapters                                           *)
(***************************************************************************)
\* The key table exposes each group under its user-facing key: the key the
\* name table gives a synthetic name, the group's own name otherwise.
ExposesUserKeys ==
    /\ DOMAIN names = UserKeys
    /\ \A key \in DOMAIN names : names[key] \in {g.idx : g \in GroupsOf(key)}
    /\ \A n \in DOMAIN aliases : n \in DOMAIN names => n \in UserKeys

\* C22: every engine adapter builds the same key table from the same
\* inputs: a group whose name is a synthetic name of the name table is
\* exposed under the user-facing key of that name, any other group under
\* its own name, and no synthetic name is among capture_names.
C22_SameKeyTable == Compiled => ExposesUserKeys

\* The same in the pcre2 and fancy-regex builds.
C22_SameKeyTableByGet == engine \in {"Pcre2", "FancyRegex"} => C22_SameKeyTable

\* A pcre2 or fancy-regex build has compiled a source with a placeholder
\* and a group written by hand.
C22_Reached ==
    /\ Compiled
    /\ engine \in {"Pcre2", "FancyRegex"}
    /\ DOMAIN aliases # {}
    /\ GroupNames \ DOMAIN aliases # {}

(***************************************************************************)
(* Inline definitions and the frames of the stack                          *)
(***************************************************************************)
\* The frames below the top one whose override map has the name.
AncestorsDefining(name) ==
    {f \in 1..(Len(pattern_stack) - 1) : name \in DOMAIN pattern_stack[f].pattern_overrides}

\* The loop is about to read a placeholder without a definition whose
\* name the override map of the top frame does not have and that of a
\* frame below does.
ReadsBelowDefinition ==
    /\ Running
    /\ pattern_stack # <<>>
    /\ TopNext.kind = "GrokPattern"
    /\ TopNext.definition = <<>>
    /\ TopNext.name \notin DOMAIN pattern_stack[Len(pattern_stack)].pattern_overrides
    /\ AncestorsDefining(TopNext.name) # {}

\* The definition the nearest such frame gives the name.
AncestorDefinition(name) ==
    pattern_stack[Latest(AncestorsDefining(name))].pattern_overrides[name]

\* C23: a placeholder %{N} without a definition, met in a body expanded
\* below a frame whose override map contains N, expands to that inline
\* definition, not to the dictionary's entry, and compile does not fail
\* with DefinitionNotFound(N).
C23_AncestorOverrides ==
    [][ReadsBelowDefinition =>
          /\ result'.error.kind # "DefinitionNotFound"
          /\ result'.kind # "Err" =>
                log'[Len(log')].body = AncestorDefinition(TopNext.name)]_vars

(***************************************************************************)
(* Where placeholders start                                                *)
(***************************************************************************)
\* The token that starts at the "%{" at position i (1-based) of the
\* source is a placeholder or an Error.
StartsToken(i) ==
    \E k \in 1..Len(emitted) :
        /\ emitted[k].range[1] = i - 1
        /\ emitted[k].kind \in {"GrokPattern", "PatternError"}

\* The "%{" at position i lies inside a placeholder that started before
\* it, or after the start of an Error token.
InsideToken(i) ==
    \E k \in 1..Len(emitted) :
        \/ /\ emitted[k].kind = "GrokPattern"
           /\ emitted[k].range[1] < i - 1
           /\ i - 1 < emitted[k].range[2]
        \/ /\ emitted[k].kind = "PatternError"
           /\ emitted[k].range[1] < i - 1

\* C24: every '%' immediately followed by '{' starts a placeholder or an
\* Error token; in "%%{NAME}" the scanner emits the literal "%" and then
\* the placeholder "%{NAME}".
C24_PercentBraceStarts ==
    Scanned =>
        \A i \in PlaceholderStarts(split.string) : StartsToken(i) \/ InsideToken(i)

\* No placeholder read from the frame before now defined the name inline.
NoEarlierDefinition(name, frame) ==
    \A j \in 1..Len(log) :
        ~(/\ log[j].frame = frame
          /\ log[j].tok.name = name
          /\ log[j].tok.definition # <<>>)

\* The loop is about to read a placeholder without a definition whose
\* name no earlier placeholder of the same body defined inline.
ReadsOutsideScope ==
    /\ Running
    /\ pattern_stack # <<>>
    /\ Len(log) < MaxLog
    /\ TopNext.kind = "GrokPattern"
    /\ TopNext.definition = <<>>
    /\ NoEarlierDefinition(TopNext.name, pattern_stack[Len(pattern_stack)].frame)

\* C25: an inline definition is scoped to the rest of the body that
\* contains it.  A placeholder without a definition that no earlier
\* placeholder of its own body defined (the definition comes later in the
\* body, or was made in a body whose frame is exhausted) is resolved from
\* the dictionary alone: it expands to the dictionary's body, or compile
\* fails with DefinitionNotFound of its name.
C25_InlineScope ==
    [][ReadsOutsideScope =>
          IF TopNext.name \in DOMAIN patterns
          THEN result'.kind # "Err" =>
                  log'[Len(log')].body = patterns[TopNext.name]
          ELSE /\ result'.kind = "Err"
               /\ result'.error = DefinitionNotFound(TopNext.name)]_vars

\* compile failed with DefinitionNotFound of a name that a body whose
\* frame is exhausted has defined inline.
C25_Witness ==
    /\ result.kind = "Err"
    /\ result.error.kind = "DefinitionNotFound"
    /\ \E j \in 1..Len(log) :
          /\ log[j].tok.name = result.error.payload
          /\ log[j].tok.definition # <<>>
          /\ \A f \in 1..Len(pattern_stack) : pattern_stack[f].frame # log[j].frame

(***************************************************************************)
(* compile and the dictionary                                              *)
(***************************************************************************)
\* The compile calls so far: those that have returned and, once it has
\* returned, the current one.
Calls ==
    IF result.kind \in {"Ok", "Err"} THEN Append(compiled, Finished) ELSE compiled

\* C26: compile never changes the dictionary.  After any sequence of
\* compile calls every lookup gives the body it gave before them; a later
\* compile of %{N}, N having only been defined inline in an earlier compile,
\* fails with DefinitionNotFound(N); and two compiles of the same source
\* give the same flat regex and the same name table.
C26_DictionaryUnchanged ==
    /\ patterns = created
    /\ \A i, j \in 1..Len(Calls) :
          /\ i < j =>
                \A name \in Calls[i].inline \ DOMAIN created :
                    Calls[j].pattern = Reference(name) =>
                        /\ Calls[j].result.kind = "Err"
                        /\ Calls[j].result.error = DefinitionNotFound(name)
          /\ (/\ Calls[i].pattern = Calls[j].pattern
              /\ Calls[i].with_alias_only = Calls[j].with_alias_only) =>
                /\ Calls[i].named_regex = Calls[j].named_regex
                /\ Calls[i].aliases = Calls[j].aliases

\* Three compiles have returned on a dictionary without N: one that
\* defined N inline and used it, then %{N} alone, which failed, then again
\* the first source.
C26_Witness ==
    /\ Len(Calls) = 3
    /\ <<"N">> \notin DOMAIN created
    /\ <<"N">> \in Calls[1].inline
    /\ Calls[1].result.kind = "Ok"
    /\ Calls[2].pattern = Reference(<<"N">>)
    /\ Calls[2].result.kind = "Err"
    /\ Calls[3].pattern = Calls[1].pattern
    /\ Calls[3].result.kind = "Ok"

(***************************************************************************)
(* Synthetic names                                                         *)
(***************************************************************************)
\* The positions at which w occurs in s.
OccurrencesOf(w, s) ==
    {p \in 1..(Len(s) - Len(w) + 1) : SubSeq(s, p, p + Len(w) - 1) = w}

\* How many captured placeholders the expansion read before position i.
CapturedBefore(l, i) == Cardinality({j \in Captured(l) : j < i})

\* C27: synthetic names are assigned once each, in the order of the
\* expansion.  After a successful compile with n captured placeholders
\* the name table's keys are exactly _n_0 .. _n_(n-1), the k-th captured
\* placeholder of the depth-first, left-to-right expansion owns _n_(k-1),
\* and each opener "(?<_n_i>" occurs exactly once in the flat regex.
C27_SyntheticNames ==
    (Compiled /\ Len(log) < MaxLog) =>
        /\ DOMAIN aliases = {MatchName(k) : k \in 0..(Cardinality(Captured(log)) - 1)}
        /\ \A i \in Captured(log) :
              log[i].match_name = MatchName(CapturedBefore(log, i))
        /\ \A k \in 0..(Cardinality(Captured(log)) - 1) :
              Cardinality(OccurrencesOf(NamedOpener(k), named_regex)) = 1

\* A compiled source in which a captured placeholder of a nested body is
\* expanded between two captured placeholders of the enclosing body, and
\* a placeholder that is not captured before the last of them.
C27_Witness ==
    /\ Compiled
    /\ \E i, j, k \in Captured(log) :
          /\ i < j /\ j < k
          /\ log[j].frame # log[i].frame
          /\ log[k].frame = log[i].frame
          /\ \E u \in 1..Len(log) : u < k /\ ~log[u].capturing

(***************************************************************************)
(* Termination                                                             *)
(***************************************************************************)
\* C28: compile terminates for every source and every finite dictionary:
\* the expansion loop eventually ends and compile returns a Pattern or an
\* error, also when the dictionary is cyclic, where it returns
\* RecursionTooDeep.
C28_Terminates ==
    <>(/\ Returned
       /\ (patterns = CyclicDictionary /\ pattern \in CyclicSources)
             => (result.kind = "Err" /\ result.error = RecursionTooDeep))

\* compile has failed with RecursionTooDeep on the source that refers to
\* the two definitions that refer to each other.
C28_Witness ==
    /\ result.kind = "Err"
    /\ result.error = RecursionTooDeep
    /\ patterns = CyclicDictionary
    /\ pattern = Reference(<<"S">>)

(***************************************************************************)
(* The expansion as a recursion                                            *)
(***************************************************************************)
\* The natural recursive expansion of a body read from byte index `it`,
\* `frame` holding the inline definitions made so far in the body and
\* `next_index` being the number of the next synthetic name: the text
\* written and the number of the next synthetic name after it.
RECURSIVE E(_, _, _, _, _, _)

\* The opener of a placeholder.
OpenerOf(tok, next_index, alias_only) ==
    IF NonCapturing(alias_only, tok.alias) THEN NonCapturingOpener
    ELSE NamedOpener(next_index)

\* A placeholder whose body expands to `inner`: its opener, the expansion
\* of the body, ')' and the expansion of the rest of the enclosing body.
EAfter(s, res, frame, next_index, dictionary, alias_only, inner) ==
    CHOOSE r \in
        {[out |-> OpenerOf(res.tok, next_index, alias_only)
                      \o inner.out \o <<")">> \o rest.out,
          index |-> rest.index] :
             rest \in {E(s, res.it, RecordDefinition(frame, res.tok), inner.index,
                         dictionary, alias_only)}} : TRUE

\* A placeholder that expands to `body`.
EGroup(s, res, frame, next_index, dictionary, alias_only, body) ==
    CHOOSE r \in
        {EAfter(s, res, frame, next_index, dictionary, alias_only, inner) :
             inner \in {E(body, 0, [pattern_overrides |-> EmptyMap],
                          IF NonCapturing(alias_only, res.tok.alias)
                          THEN next_index ELSE next_index + 1,
                          dictionary, alias_only)}} : TRUE

ETok(s, res, frame, next_index, dictionary, alias_only) ==
    IF res.tok.kind = "RegularExpression"
    THEN CHOOSE r \in
            {[out |-> res.tok.string \o rest.out, index |-> rest.index] :
                 rest \in {E(s, res.it, frame, next_index, dictionary, alias_only)}} : TRUE
    ELSE IF res.tok.kind = "GrokPattern" /\ ChooseBody(frame, res.tok, dictionary).ok
    THEN EGroup(s, res, frame, next_index, dictionary, alias_only,
                ChooseBody(frame, res.tok, dictionary).body)
    ELSE [out |-> <<>>, index |-> next_index]

E(s, it, frame, next_index, dictionary, alias_only) ==
    CHOOSE r \in {ETok(s, res, frame, next_index, dictionary, alias_only) :
                     res \in {GrokSplitNext(s, it)}} : TRUE

\* How many times character ch occurs in s.
CountOf(ch, s) == Cardinality({p \in 1..Len(s) : s[p] = ch})

\* Neither the source nor a body of the dictionary holds a parenthesis, so
\* that every parenthesis of the flat regex was written by the compiler.
ParenFree ==
    /\ CountOf("(", pattern) + CountOf(")", pattern) = 0
    /\ \A n \in DOMAIN patterns :
          CountOf("(", patterns[n]) + CountOf(")", patterns[n]) = 0

\* C29: the explicit-stack expansion computes the flat regex of the
\* natural recursive expansion E.  For every source that compile_regex
\* expands, the flat regex is E(source); the openers and the ')' written
\* by the compiler are balanced in it; and while the loop runs the openers
\* written minus the ')' written is the depth of the stack minus one.
C29_SameAsRecursion ==
    /\ result.kind \in {"Expanded", "Ok"} =>
          named_regex = E(pattern, 0, [pattern_overrides |-> EmptyMap], 0,
                          patterns, with_alias_only).out
    /\ (ParenFree /\ result.kind \in {"Expanded", "Ok"}) =>
          CountOf("(", named_regex) = CountOf(")", named_regex)
    /\ (ParenFree /\ Running) =>
          CountOf("(", named_regex) - CountOf(")", named_regex)
              = Len(pattern_stack) - 1

\* A compiled source whose expansion has three placeholders or more, not
\* all of the same body, and some literal text.
C29_Witness ==
    /\ Compiled
    /\ ParenFree
    /\ \E i, j \in 1..Len(log) : log[j].frame # log[i].frame
    /\ CountOf("(", named_regex) >= 3
    /\ \E p \in 1..Len(named_regex) : named_regex[p] \in {"x", "y", "z", "w"}

(***************************************************************************)
(* The table of default patterns                                           *)
(***************************************************************************)
\* The lines of the pattern files that are neither comments nor empty.
DefinitionLines ==
    {i \in 1..Len(files) : files[i][1] # <<>> /\ files[i][1][1] # "#"}

\* C30: the table generated from the pattern files is sorted by name and
\* de-duplicated: no name occurs in more than one of its entries, also when
\* lines of two different pattern files define it; comment lines and empty
\* lines contribute no entry.
C30_SortedDeduplicated ==
    build \in {"written", "loaded"} =>
        /\ \A i, j \in 1..Len(table) :
              i < j => ~StrLess(table[j][1], table[i][1])
        /\ \A i, j \in 1..Len(table) :
              table[i][1] = table[j][1] => i = j
        /\ \A i \in 1..Len(table) :
              \E k \in DefinitionLines : split_once(files[k][1]) = table[i]
=============================================================================
